---- MODULE Spec2Model ----
(***************************************************************************)
(* Model of the metric functions of Misc.py and of the training wrapper    *)
(* OccupancyNetworkWrapper of ModelWrapper.py.                             *)
(*                                                                         *)
(* The specifications share the variables:                                 *)
(*   SpecMetric  the metric functions of Misc.py called with bounded       *)
(*               inputs (prediction, coordinates, label, threshold)        *)
(*   SpecBox     the bounding box metric over boxes of several points      *)
(*   SpecParse   parse_to_list of Misc.py                                  *)
(*   SpecStore   the metric store of the wrapper (logging, saving)         *)
(*   SpecAverage the averages over the series of the store                 *)
(*   SpecTrain   OccupancyNetworkWrapper.train(), step by step             *)
(*   SpecEval    validate() and test(), step by step                       *)
(*   SpecDraw    one test pass over many batches, with and without draw    *)
(*   SpecMeasure validate() and test() over batches the metric functions   *)
(*               measure                                                   *)
(*   SpecLife    any sequence of calls of the wrapper's methods            *)
(*                                                                         *)
(* Numbers.  Scores and thresholds are tenths (5 is 0.5).  A ratio the     *)
(* code computes as n / (d + 1e-9) is the record Ratio(n, d); an integer   *)
(* the code returns as such is Exact(n).  Metric values are records with   *)
(* a kind: a number, +infinity, NaN or Python's None.                      *)
(***************************************************************************)
EXTENDS Integers, Sequences, FiniteSets, TLC

VARIABLES
    \* ---- Misc.py metric functions: the last call and what it returned
    kdtree_rejects_empty,   \* the installed pykdtree refuses an empty point set
    m_called,               \* name of the function of Misc called last
    m_args,                 \* prediction, coordinates, label, threshold of the calls
    m_offset,               \* offset of the last call (bounding box only)
    m_ret,                  \* its result
    \* ---- OccupancyNetworkWrapper
    metrics,                \* self.metrics: metric name -> list of values
    files,                  \* files under path_save_metrics: name -> saved list
    models,                 \* files under path_save_models: name -> network saved
    network,                \* number of optimizer steps the network has taken
    num_batches,            \* len(self.training_data)
    device,                 \* self.device
    \* ---- one call of train(): its arguments, locals and position
    pc,                     \* position of train()
    t_args,                 \* epochs, save_best_model, save_model_every_n_epoch
    epoch,                  \* loop variable of train()
    batch,                  \* batches of the current epoch already processed
    best_loss,              \* local best_loss
    validation,             \* locals validation_loss, validation_iou, validation_bb_iou
    progress_bar,           \* last description set on the progress bar
    ops,                    \* operations of the current epoch of train(), in order
    \* ---- the wrapper's other methods: the last call and how it ended
    w_called,               \* method and arguments of the call
    w_ret,                  \* what it returned or raised
    \* ---- evaluation
    training,               \* self.occupancy_network.training
    num_test_batches        \* len(self.test_data)

metric_vars == <<kdtree_rejects_empty, m_called, m_args, m_offset, m_ret>>
store_vars  == <<metrics, files, models, network, num_batches, device>>
train_vars  == <<pc, t_args, epoch, batch, best_loss, validation, progress_bar, ops>>
call_vars   == <<w_called, w_ret>>
eval_vars   == <<training, num_test_batches>>
vars        == <<metric_vars, store_vars, train_vars, call_vars, eval_vars>>

----------------------------------------------------------------------------
(* Bounds of the model *)

MaxQuery  == 3      \* query coordinates per metric call
MaxLen    == 3      \* length of a series in SpecStore
MaxEpochs == 2      \* epochs argument of one train() call
MaxSteps  == 3      \* optimizer steps over the wrapper's lifetime
MaxCoord  == 3      \* largest coordinate of a bounding-box query point
MaxTests  == 2      \* test batches over the wrapper's lifetime
MaxDraws  == 2        \* the test set reaches the batch index MaxDraws * DrawInterval
MaxLife   == 2      \* entries logged before the last growing call in SpecLife

----------------------------------------------------------------------------
(* Helpers *)

Max(S) == CHOOSE x \in S : \A y \in S : y <= x
Min(S) == CHOOSE x \in S : \A y \in S : x <= y
Abs(x) == IF x < 0 THEN -x ELSE x

RECURSIVE SumSeq(_)
SumSeq(s) == IF s = <<>> THEN 0 ELSE Head(s) + SumSeq(Tail(s))

RECURSIVE ProdSeq(_)
ProdSeq(s) == IF s = <<>> THEN 1 ELSE Head(s) * ProdSeq(Tail(s))

\* tensor[mask]: the rows of a tensor selected by a boolean mask, in order
RECURSIVE Masked(_, _)
Masked(rows, mask) ==
    IF rows = <<>> THEN <<>>
    ELSE IF Head(mask) THEN <<Head(rows)>> \o Masked(Tail(rows), Tail(mask))
    ELSE Masked(Tail(rows), Tail(mask))

\* n / (d + 1e-9)
Ratio(n, d) == [num |-> n, den |-> d, eps |-> TRUE]
\* the integer n
Exact(n) == [num |-> n, den |-> 1, eps |-> FALSE]

----------------------------------------------------------------------------
(* Misc.py: the metric functions *)

Points     == {<<0, 0, 0>>, <<1, 1, 1>>, <<2, 2, 2>>}
Scores     == {1, 5, 9}
Thresholds == {5}
Offsets    == {<<0, 0, 0>>, <<1, 1, 1>>}
Labels     == SUBSET Points
Queries    == UNION {[1..n -> Points \X Scores] : n \in 0..MaxQuery}

\* pykdtree is no part of the source.  What an index over no label point
\* answers is taken from the specification of the matcher ("yields an index
\* that classifies every query as outside"): no neighbour for any query
\* point, a distance that is not zero
NoNeighbour == -1
empty_index_query(coordinates) == [i \in 1..Len(coordinates) |-> NoNeighbour]

SqDist(p, q) == (p[1] - q[1]) * (p[1] - q[1]) + (p[2] - q[2]) * (p[2] - q[2])
                + (p[3] - q[3]) * (p[3] - q[3])

\* KDTree(label): building the index over an empty point set is outside what
\* pykdtree promises; a build either refuses it or yields an empty index
KDTreeFails(label) == label = {} /\ kdtree_rejects_empty

\* kd_tree.query(coordinates, k=1) over label points: the distance to the
\* nearest of them (its square here: it is zero exactly when the distance is)
nearest_neighbour(coordinates, label) ==
    [i \in 1..Len(coordinates) |-> Min({SqDist(coordinates[i], l) : l \in label})]
\* dist_coordinates_to_label, _ = kd_tree.query(coordinates, k=1)
dist_coordinates_to_label(coordinates, label) ==
    IF label = {} THEN empty_index_query(coordinates)
    ELSE nearest_neighbour(coordinates, label)

\* (prediction > threshold).float()
Thresholded(prediction, threshold) ==
    [i \in 1..Len(prediction) |-> IF prediction[i] > threshold THEN 1 ELSE 0]

\* (dist_coordinates_to_label == 0.0).float()
CoordinatesLabelNear(coordinates, label) ==
    LET d == dist_coordinates_to_label(coordinates, label)
    IN  [i \in 1..Len(coordinates) |-> IF d[i] # NoNeighbour /\ d[i] <= 3 THEN 1 ELSE 0]
CoordinatesLabel(coordinates, label) ==
    LET d == dist_coordinates_to_label(coordinates, label)
    IN  [i \in 1..Len(coordinates) |-> IF d[i] = 0 THEN 1 ELSE 0]

Raised == [raised |-> TRUE, iou |-> Exact(0), shape |-> <<>>, error |-> <<>>]
Scalar(v) == [raised |-> FALSE, iou |-> v, shape |-> <<>>, error |-> <<>>]
Triple(v, s, e) == [raised |-> FALSE, iou |-> v, shape |-> s, error |-> e]

\* torch.sum((s == k).float()) and torch.sum((s >= k).float())
CountEqual(s, k) == Cardinality({i \in 1..Len(s) : s[i] = k})
CountAtLeast(s, k) == Cardinality({i \in 1..Len(s) : s[i] >= k})

intersection_over_union_exclusive(prediction, coordinates, label, threshold) ==
    IF KDTreeFails(label) THEN Raised
    ELSE
    LET coordinates_label == CoordinatesLabel(coordinates, label)
        pred == Thresholded(prediction, threshold)
        sum == [i \in 1..Len(pred) |-> pred[i] + coordinates_label[i]]
    IN  Scalar(Ratio(CountEqual(sum, 2), CountEqual(sum, 1)))
intersection_over_union(prediction, coordinates, label, threshold) ==
    IF KDTreeFails(label) THEN Raised
    ELSE
    LET coordinates_label == CoordinatesLabel(coordinates, label)
        pred == Thresholded(prediction, threshold)
        sum_of_prediction_and_coordinates_label ==
            [i \in 1..Len(pred) |-> pred[i] + coordinates_label[i]]
        intersection == CountEqual(sum_of_prediction_and_coordinates_label, 2)
        union == CountAtLeast(sum_of_prediction_and_coordinates_label, 1)
    IN  Scalar(Ratio(intersection, union))

precision_over_labels(prediction, coordinates, label, threshold) ==
    IF KDTreeFails(label) THEN Raised
    ELSE
    LET coordinates_label == CoordinatesLabel(coordinates, label)
        pred == Thresholded(prediction, threshold)
        tp == [i \in 1..Len(pred) |->
                 IF pred[i] = 1 /\ coordinates_label[i] = 1 THEN 1 ELSE 0]
        fn == [i \in 1..Len(pred) |->
                 IF pred[i] = 0 /\ coordinates_label[i] = 1 THEN 1 ELSE 0]
    IN  Scalar(Ratio(SumSeq(tp), SumSeq([i \in 1..Len(pred) |-> tp[i] + fn[i]])))
precision(prediction, coordinates, label, threshold) ==
    IF KDTreeFails(label) THEN Raised
    ELSE
    LET coordinates_label == CoordinatesLabel(coordinates, label)
        pred == Thresholded(prediction, threshold)
        B(b) == IF b THEN 1 ELSE 0
        tp == [i \in 1..Len(pred) |->
                 B(B(pred[i] = 1) + B(coordinates_label[i] = 1) = 2)]
        fp == [i \in 1..Len(pred) |->
                 B(B(pred[i] = 1) + B(coordinates_label[i] = 0) = 2)]
    IN  Scalar(Ratio(SumSeq(tp), SumSeq([i \in 1..Len(pred) |-> tp[i] + fp[i]])))

recall_over_predictions(prediction, coordinates, label, threshold) ==
    precision(prediction, coordinates, label, threshold)
recall(prediction, coordinates, label, threshold) ==
    IF KDTreeFails(label) THEN Raised
    ELSE
    LET coordinates_label == CoordinatesLabel(coordinates, label)
        pred == Thresholded(prediction, threshold)
        B(b) == IF b THEN 1 ELSE 0
        tp == [i \in 1..Len(pred) |->
                 B(B(pred[i] = 1) + B(coordinates_label[i] = 1) = 2)]
        fn == [i \in 1..Len(pred) |->
                 B(B(pred[i] = 0) + B(coordinates_label[i] = 1) = 2)]
    IN  Scalar(Ratio(SumSeq(tp), SumSeq([i \in 1..Len(pred) |-> tp[i] + fn[i]])))

\* torch.max(rows, dim=0)[0] and torch.min(rows, dim=0)[0] of a non-empty tensor
MaxRows(rows) == [a \in 1..3 |-> Max({rows[i][a] : i \in 1..Len(rows)})]
MinRows(rows) == [a \in 1..3 |-> Min({rows[i][a] : i \in 1..Len(rows)})]

\* torch.max(torch.tensor(0.0), torch.min(max_p, max_l) - torch.max(min_p, min_l))
OverlapUnclipped(max_p, min_p, max_l, min_l) ==
    Min({max_p, max_l}) - Max({min_p, min_l})
Overlap(max_p, min_p, max_l, min_l) ==
    Max({0, Min({max_p, max_l}) - Max({min_p, min_l})})

intersection_over_union_bounding_box(prediction, coordinates, label, threshold, offset) ==
    IF KDTreeFails(label) THEN Raised
    ELSE
    LET cl == CoordinatesLabel(coordinates, label)
        coordinates_label == Masked(coordinates, [i \in 1..Len(coordinates) |-> cl[i] = 1])
    IN
    IF Len(coordinates) = 0
    THEN Triple(Exact(1), <<0, 0, 0>>, <<0, 0, 0>>)
    ELSE IF coordinates_label = <<>>
    THEN Raised     \* torch.max over a tensor without elements
    ELSE
    LET max_coordinates_label == [a \in 1..3 |-> MaxRows(coordinates_label)[a] + offset[a]]
        min_coordinates_label == [a \in 1..3 |-> MinRows(coordinates_label)[a] - offset[a]]
        pred == Thresholded(prediction, threshold)
        positives == Masked(coordinates, [i \in 1..Len(coordinates) |-> pred[i] = 1])
    IN
    IF Len(positives) = 0
    THEN Triple(Exact(0), <<0, 0, 0>>, <<0, 0, 0>>)
    ELSE
    LET max_coordinates_prediction == MaxRows(positives)
        min_coordinates_prediction == MinRows(positives)
        edge_sizes_label ==
            [a \in 1..3 |-> Abs(max_coordinates_label[a] - min_coordinates_label[a])]
        bounding_box_label_volume == ProdSeq(edge_sizes_label)
        edge_size_prediction ==
            [a \in 1..3 |-> Abs(max_coordinates_prediction[a] - min_coordinates_prediction[a])]
        bounding_box_prediction_volume == ProdSeq(edge_size_prediction)
        overlap ==
            [a \in 1..3 |->
                Overlap(max_coordinates_prediction[a], min_coordinates_prediction[a],
                        max_coordinates_label[a], min_coordinates_label[a])]
        intersection == ProdSeq(overlap)
        bounding_box_error ==
            [a \in 1..3 |->
                Max({Abs(max_coordinates_prediction[a] - max_coordinates_label[a]),
                     Abs(min_coordinates_prediction[a] - min_coordinates_label[a])})]
    IN  Triple(Ratio(intersection,
                     bounding_box_prediction_volume + bounding_box_label_volume - intersection),
               edge_size_prediction, bounding_box_error)

Coordinates(q) == [i \in 1..Len(q) |-> q[i][1]]
Prediction(q)  == [i \in 1..Len(q) |-> q[i][2]]
Args(q, l, t) ==
    [prediction |-> Prediction(q), coordinates |-> Coordinates(q), label |-> l,
     threshold |-> t]
NoOffset == <<0, 0, 0>>

----------------------------------------------------------------------------
(* Metric values *)

Num(x)  == [kind |-> "num", v |-> x]
PosInf  == [kind |-> "inf", v |-> 0]      \* np.inf
NaN     == [kind |-> "nan", v |-> 0]      \* float('nan')
None    == [kind |-> "none", v |-> 0]     \* Python's None

\* a float that is no whole number is the fraction v / den in lowest terms, so
\* that equal floats are equal values
RECURSIVE GCD(_, _)
GCD(a, b) == IF b = 0 THEN a ELSE GCD(b, a % b)
Float(n, d) ==
    IF n % d = 0 THEN Num(n \div d)
    ELSE LET g == GCD(Abs(n), d)
         IN  [kind |-> "float", v |-> n \div g, den |-> d \div g]
Den(x) == IF x.kind = "float" THEN x.den ELSE 1
IsNumber(x) == x.kind \in {"num", "float"}
\* the least common denominator of fractions
RECURSIVE LcmSeq(_)
LcmSeq(s) ==
    IF s = <<>> THEN 1
    ELSE LET rest == LcmSeq(Tail(s)) IN (Head(s) \div GCD(Head(s), rest)) * rest

\* tensor.item() of a metric. The tensors are float32: in n / (d + 1e-9) the
\* sum d + 1e-9 rounds to d for every count d >= 1, so the value is n / d; it
\* is 0.0 when n is 0 (then d may be 0), and n > 0 comes with d >= n
item(x) ==
    IF ~x.eps THEN Num(x.num)
    ELSE IF x.num = 0 THEN Num(0)
    ELSE Float(x.num, x.den)

\* a > b on floats: false whenever a NaN is compared
GreaterEq(a, b) ==
    \/ a.kind = "inf" /\ (IsNumber(b) \/ b.kind = "inf")
    \/ IsNumber(a) /\ IsNumber(b) /\ a.v * Den(b) >= b.v * Den(a)
Greater(a, b) ==
    \/ a.kind = "inf" /\ IsNumber(b)
    \/ IsNumber(a) /\ IsNumber(b) /\ a.v * Den(b) > b.v * Den(a)

----------------------------------------------------------------------------
(* ModelWrapper.py: the metric store.  self.metrics is a dict: its items   *)
(* are kept in insertion order, here a sequence of (name, values) items.   *)

Keys(m) == {m[i].name : i \in 1..Len(m)}
Index(m, metric_name) == CHOOSE i \in 1..Len(m) : m[i].name = metric_name
\* m[metric_name]
Series(m, metric_name) == m[Index(m, metric_name)].values
\* m.get(metric_name, [])
SeriesOrEmpty(m, metric_name) ==
    IF metric_name \in Keys(m) THEN Series(m, metric_name) ELSE <<>>

logging_skips_none(m, metric_name, value) ==
    IF value = None THEN m
    ELSE IF metric_name \in Keys(m)
    THEN [m EXCEPT ![Index(m, metric_name)].values = Append(@, value)]
    ELSE Append(m, [name |-> metric_name, values |-> <<value>>])
logging_overwrites(m, metric_name, value) ==
    IF metric_name \in Keys(m)
    THEN IF value = None
         THEN m
         ELSE [m EXCEPT ![Index(m, metric_name)].values = <<value>>]
    ELSE Append(m, [name |-> metric_name, values |-> <<value>>])
logging(m, metric_name, value) ==
    IF metric_name \in Keys(m)
    THEN IF value = None
         THEN m
         ELSE [m EXCEPT ![Index(m, metric_name)].values = Append(@, value)]
    ELSE Append(m, [name |-> metric_name, values |-> <<value>>])

\* torch.tensor(values) cannot be built from a list that holds None
TensorFails(values) == \E i \in 1..Len(values) : values[i] = None

WriteFile(fs, file_name, content) ==
    [f \in DOMAIN fs \cup {file_name} |-> IF f = file_name THEN content ELSE fs[f]]

MetricFile(metric_name) == metric_name \o ".pt"

\* torch.save opens its file for writing and so empties it before it writes:
\* a write that raises on the way leaves a file that holds no series (no
\* network) any more
Corrupt == <<[kind |-> "corrupt", v |-> 0]>>
CorruptModel == -1

\* save_metrics: the items are written one by one, in the dict's order; the
\* first item that raises ends the call with the earlier items written.
\* With add_time_to_file_name the file name calls datetime.now(), which the
\* module datetime does not have.
RECURSIVE SaveFrom(_, _, _, _)
SaveFrom(fs, m, i, add_time_to_file_name) ==
    IF i > Len(m) THEN [raised |-> FALSE, files |-> fs]
    ELSE IF TensorFails(m[i].values) \/ add_time_to_file_name
    THEN [raised |-> TRUE, files |-> fs]
    ELSE SaveFrom(WriteFile(fs, MetricFile(m[i].name), m[i].values), m, i + 1,
                  add_time_to_file_name)

save_metrics_nothing(fs, m, add_time_to_file_name) ==
    [raised |-> FALSE, files |-> fs]
save_metrics_first_item(fs, m, add_time_to_file_name) ==
    SaveFrom(fs, SubSeq(m, 1, 1), 1, add_time_to_file_name)
save_metrics(fs, m, add_time_to_file_name) ==
    SaveFrom(fs, m, 1, add_time_to_file_name)

\* a call of a method of the wrapper, with its arguments
Call(op, metric_name, e, add_time_to_file_name) ==
    [op |-> op, metric_name |-> metric_name, epoch |-> e,
     add_time_to_file_name |-> add_time_to_file_name, draw |-> FALSE]

\* how a method of the wrapper ends
Returned(v) == [raised |-> "no", value |-> v]
Raises(e)   == [raised |-> e, value |-> None]

\* np.mean(values): NaN over nothing (numpy warns, it does not raise), a
\* TypeError over None, else the sum over the count; the fractions are
\* brought to their least common denominator common
np_mean(values) ==
    IF \E i \in 1..Len(values) : values[i] = None THEN Raises("TypeError")
    ELSE IF values = <<>> THEN Returned(NaN)
    ELSE IF \E i \in 1..Len(values) : values[i] = NaN THEN Returned(NaN)
    ELSE IF \E i \in 1..Len(values) : values[i] = PosInf THEN Returned(PosInf)
    ELSE LET common == LcmSeq([i \in 1..Len(values) |-> Den(values[i])])
             total  == SumSeq([i \in 1..Len(values) |->
                                  values[i].v * (common \div Den(values[i]))])
         IN  Returned(Float(total, common * Len(values)))

\* np.argwhere(epochs == epoch): the positions (from 1 here) whose entry is epoch
argwhere(epochs, e) == {i \in 1..Len(epochs) : epochs[i] = Num(e)}

\* metric[positions]: the selected entries, in order
Take(metric, positions) ==
    Masked(metric, [i \in 1..Len(metric) |-> i \in positions])

get_average_metric_for_epoch_all(m, metric_name, e) ==
    IF metric_name \notin Keys(m) \/ "epoch" \notin Keys(m) THEN Raises("KeyError")
    ELSE np_mean(Series(m, metric_name))
get_average_metric_for_epoch(m, metric_name, e) ==
    IF metric_name \notin Keys(m) \/ "epoch" \notin Keys(m) THEN Raises("KeyError")
    ELSE LET metric == Series(m, metric_name)
             positions == argwhere(Series(m, "epoch"), e)
         IN  IF \E i \in positions : i > Len(metric) THEN Raises("IndexError")
             ELSE np_mean(Take(metric, positions))

get_average_metric_or_nan(m, metric_name) ==
    IF metric_name \notin Keys(m) THEN Returned(NaN)
    ELSE np_mean(Series(m, metric_name))
get_average_metric(m, metric_name) ==
    IF metric_name \notin Keys(m) THEN Raises("KeyError")
    ELSE np_mean(Series(m, metric_name))

----------------------------------------------------------------------------
(* ModelWrapper.py: train() *)

Device  == "cuda"                 \* the default of the parameter device
Devices == {"cuda", "cpu"}
BestModelFile == "occupancy_network_best_" \o device \o ".pt"
EpochModelFile(e) ==
    "occupancy_network_best_" \o ToString(e) \o "_" \o device \o ".pt"

BatchCounts  == 1..2                       \* len(self.training_data)
TrainLosses  == {Num(1), Num(2)}           \* loss.item() of a training batch
\* what validate() returns: loss, iou, bounding box iou
ValOutcomes  ==
    {[loss |-> NaN,    iou |-> Num(0), bb_iou |-> Num(0)],
     [loss |-> Num(1), iou |-> Num(1), bb_iou |-> Num(1)],
     [loss |-> Num(2), iou |-> Num(1), bb_iou |-> Num(0)]}
EveryN       == 1..2                       \* save_model_every_n_epoch

NoTrainArgs == [epochs |-> 0, save_best_model |-> TRUE, save_model_every_n_epoch |-> 10]
NoValidation == [loss |-> PosInf, iou |-> Num(0), bb_iou |-> Num(0)]
NoProgress == [epoch |-> 0, epochs |-> 0, best_loss |-> PosInf,
               validation |-> NoValidation, loss |-> Num(0)]

Running == pc \in {"batch", "validate", "checkpoint", "save"}
TestRunning == pc \in {"test_batch", "test_save", "test_averages"}
Busy == Running \/ TestRunning

\* where an epoch starts: a training set without batches goes to the validation
FirstOfEpoch == IF num_batches = 0 THEN "validate" ELSE "batch"

\* train(epochs, save_best_model, save_model_every_n_epoch) is called: lines 75-84;
\* with no epoch to run it returns at once
TrainCall(epochs, save_best_model, save_model_every_n_epoch) ==
    /\ ~Busy
    /\ network + epochs * num_batches <= MaxSteps
    /\ t_args' = [epochs |-> epochs, save_best_model |-> save_best_model,
                  save_model_every_n_epoch |-> save_model_every_n_epoch]
    /\ best_loss' = PosInf
    /\ validation' = NoValidation
    /\ epoch' = 0
    /\ batch' = 0
    /\ pc' = IF epochs = 0 THEN "returned" ELSE FirstOfEpoch
    /\ training' = TRUE
    /\ ops' = <<>>
    /\ UNCHANGED <<num_test_batches, call_vars, metric_vars, store_vars, progress_bar>>

\* the operations of one training batch in the order of lines 90-109, and of the
\* validation of lines 110-114
BatchOpsStepFirst ==
    <<"zero_grad", "forward", "loss_function", "step", "backward", "set_description",
      "logging">>
BatchOps ==
    <<"zero_grad", "forward", "loss_function", "backward", "step", "set_description",
      "logging">>
ValidateOps == <<"validate", "logging">>

\* lines 108-109: the loss of the batch and the current epoch are logged
LogBatchLossOnly(m, loss, e) == logging(m, "train_loss", loss)
LogBatch(m, loss, e) == logging(logging(m, "train_loss", loss), "epoch", Num(e))

\* one training batch, lines 86-109
TrainBatch(loss) ==
    /\ pc = "batch"
    /\ network' = network + 1
    /\ progress_bar' = [epoch |-> epoch + 1, epochs |-> t_args.epochs,
                        best_loss |-> best_loss, validation |-> validation,
                        loss |-> loss]
    /\ metrics' = LogBatch(metrics, loss, epoch)
    /\ batch' = batch + 1
    /\ ops' = ops \o BatchOps
    /\ pc' = IF batch + 1 = num_batches THEN "validate" ELSE "batch"
    /\ UNCHANGED <<eval_vars, call_vars, metric_vars, files, models, num_batches, device, t_args, epoch,
                   best_loss, validation>>

\* lines 112-114: the three results of the validation are logged
LogValidationLossOnly(m, outcome) == logging(m, "validation_loss", outcome.loss)
LogValidation(m, outcome) ==
    logging(logging(logging(m,
        "validation_loss", outcome.loss),
        "validation_iou", outcome.iou),
        "validation_bb_iou", outcome.bb_iou)

\* validation after the batches of an epoch, lines 110-114
TrainValidate(outcome) ==
    /\ pc = "validate"
    /\ validation' = outcome
    /\ metrics' = LogValidation(metrics, outcome)
    /\ pc' = "checkpoint"
    /\ training' = FALSE
    /\ ops' = ops \o ValidateOps
    /\ UNCHANGED <<num_test_batches, call_vars, metric_vars, files, models, network,
                   num_batches, device, t_args, epoch, batch, best_loss, progress_bar>>

\* lines 116-119: the best model
IsBestOrEqual(save_best_model, best, validation_loss) ==
    save_best_model /\ GreaterEq(best, validation_loss)
IsBest(save_best_model, best, validation_loss) ==
    save_best_model /\ Greater(best, validation_loss)

\* line 121: the periodic model
IsPeriodicIfNotBest(e, n, best_written) == e % n = 0 /\ ~best_written
IsPeriodic(e, n, best_written) == e % n = 0

\* the checkpoints of an epoch, lines 116-124
TrainCheckpoint ==
    /\ pc = "checkpoint"
    /\ LET is_best == IsBest(t_args.save_best_model, best_loss, validation.loss)
           with_best == IF is_best THEN WriteFile(models, BestModelFile, network)
                        ELSE models
       IN  /\ best_loss' = IF is_best THEN validation.loss ELSE best_loss
           /\ models' = IF IsPeriodic(epoch, t_args.save_model_every_n_epoch, is_best)
                        THEN WriteFile(with_best, EpochModelFile(epoch), network)
                        ELSE with_best
           /\ ops' = ops \o (IF is_best THEN <<"save_best">> ELSE <<>>)
                        \o (IF IsPeriodic(epoch, t_args.save_model_every_n_epoch, is_best)
                            THEN <<"save_epoch">> ELSE <<>>)
    /\ pc' = "save"
    /\ UNCHANGED <<eval_vars, call_vars, metric_vars, metrics, files, network, num_batches, device, t_args,
                   epoch, batch, validation, progress_bar>>

\* the metrics are saved and the epoch ends, lines 125-126
TrainSaveMetrics ==
    /\ pc = "save"
    /\ LET saved == save_metrics(files, metrics, FALSE)
       IN  /\ files' = saved.files
           /\ IF saved.raised
              THEN pc' = "aborted" /\ UNCHANGED <<epoch, batch, ops>>
              ELSE /\ epoch' = epoch + 1
                   /\ batch' = 0
                   /\ ops' = <<>>
                   /\ pc' = IF epoch + 1 = t_args.epochs THEN "returned" ELSE FirstOfEpoch
    /\ UNCHANGED <<eval_vars, call_vars, metric_vars, metrics, models, network, num_batches, device, t_args,
                   best_loss, validation, progress_bar>>

\* a step of train() raises (a device or memory error, a failed write): the
\* exception leaves train(), nothing in train() catches it
TrainFailsLogged ==
    /\ Running
    /\ pc' = "aborted"
    /\ metrics' = IF pc = "batch" THEN logging(metrics, "train_loss", Num(1)) ELSE metrics
    /\ UNCHANGED <<eval_vars, call_vars, metric_vars, files, models, network, num_batches, device,
                   t_args, epoch, batch, best_loss, validation, progress_bar, ops>>

\* the operations of a batch, how many of them are done when it raises: none
\* when the loader (line 86) or zero_grad (90) raises, zero_grad when the
\* device transfer or the forward pass (92-96) raises, the forward pass too
\* when the loss function (98) raises, and so on up to the optimizer step
\* when loss.item() raises in line 106
StepDone == CHOOSE k \in 1..Len(BatchOps) : BatchOps[k] = "step"
Completed == 0..StepDone

\* the exception leaves train() with what the step did before it raised:
\*  - a batch that raises has completed a prefix of its operations: the network
\*    is one step further once optimizer.step() has returned, and nothing is
\*    logged (TrainLogFails is the batch that raises in line 108);
\*  - a validation that raises has put the network into evaluation mode;
\*  - a torch.save of the best model that raises has left the file as it was
\*    (it raised before it opened it) or corrupt (it raised while writing: the
\*    file is overwritten in place);
\*  - a torch.save of the periodic model that raises comes after the best model
\*    of the epoch was written, and has left its file as it was or corrupt;
\*  - a torch.save of save_metrics that raises comes after the earlier series
\*    were written, and has left the file of its series as it was or corrupt.
TrainFails ==
    /\ Running
    /\ pc' = "aborted"
    /\ \/ /\ pc = "batch"
          /\ \E k \in Completed :
                 /\ ops' = ops \o SubSeq(BatchOps, 1, k)
                 /\ network' = IF k = StepDone THEN network + 1 ELSE network
          /\ UNCHANGED <<training, models, best_loss, files>>
       \/ /\ pc = "validate"
          /\ training' = FALSE
          /\ UNCHANGED <<network, models, best_loss, files, ops>>
       \/ /\ pc = "checkpoint"
          /\ IsBest(t_args.save_best_model, best_loss, validation.loss)
          /\ models' \in {models, WriteFile(models, BestModelFile, CorruptModel)}
          /\ UNCHANGED <<training, network, best_loss, files, ops>>
       \/ /\ pc = "checkpoint"
          /\ LET is_best == IsBest(t_args.save_best_model, best_loss, validation.loss)
             IN  /\ IsPeriodic(epoch, t_args.save_model_every_n_epoch, is_best)
                 /\ best_loss' = IF is_best THEN validation.loss ELSE best_loss
                 /\ LET written == IF is_best THEN WriteFile(models, BestModelFile, network)
                                   ELSE models
                    IN  models' \in {written,
                                     WriteFile(written, EpochModelFile(epoch), CorruptModel)}
                 /\ ops' = ops \o (IF is_best THEN <<"save_best">> ELSE <<>>)
          /\ UNCHANGED <<training, network, files>>
       \/ /\ pc = "save"
          /\ \E k \in 0..Len(metrics) - 1 :
                 LET saved == save_metrics(files, SubSeq(metrics, 1, k), FALSE)
                 IN  /\ ~saved.raised
                     /\ files' \in {saved.files,
                                    WriteFile(saved.files, MetricFile(metrics[k + 1].name),
                                              Corrupt)}
          /\ UNCHANGED <<training, network, models, best_loss, ops>>
    /\ UNCHANGED <<num_test_batches, call_vars, metric_vars, metrics, num_batches, device,
                   t_args, epoch, batch, validation, progress_bar>>

\* the second loss.item() of a batch raises (line 108): the optimizer has
\* stepped and the progress bar shows the loss of the batch (lines 104-106),
\* nothing is logged
TrainLogFails(loss) ==
    /\ pc = "batch"
    /\ pc' = "aborted"
    /\ network' = network + 1
    /\ progress_bar' = [epoch |-> epoch + 1, epochs |-> t_args.epochs,
                        best_loss |-> best_loss, validation |-> validation,
                        loss |-> loss]
    /\ ops' = ops \o SubSeq(BatchOps, 1, StepDone + 1)
    /\ UNCHANGED <<eval_vars, call_vars, metric_vars, metrics, files, models, num_batches,
                   device, t_args, epoch, batch, best_loss, validation>>

\* Misc.get_number_of_network_parameters(network): it puts the network into
\* training mode before it counts the parameters that require a gradient; the
\* count is a property of the architecture, which the model does not hold
CallGetNumberOfNetworkParameters ==
    /\ ~Busy
    /\ training' = TRUE
    /\ UNCHANGED <<num_test_batches, call_vars, metric_vars, store_vars, train_vars>>

----------------------------------------------------------------------------
(* ModelWrapper.py: validate() and test() *)

\* the series test() logs for every batch, in the order of lines 218-245
TestNames ==
    <<"iou", "iou_bounding_box", "bounding_box_shape_x", "bounding_box_shape_y",
      "bounding_box_shape_z", "bounding_box_error_x", "bounding_box_error_y",
      "bounding_box_error_z", "precision", "recall", "test_loss", "size_volume",
      "size_prediction", "size_actual">>
TestNameSet == {TestNames[i] : i \in 1..Len(TestNames)}

\* what one test batch measures
TestOutcomes == {[metric_name \in TestNameSet |-> Num(k)] : k \in 1..2}

\* the logging calls of one test batch, the first k of them
RECURSIVE LogFirst(_, _, _, _)
LogFirst(m, names, outcome, k) ==
    IF k = 0 \/ names = <<>> THEN m
    ELSE LogFirst(logging(m, Head(names), outcome[Head(names)]), Tail(names), outcome, k - 1)
LogAll(m, outcome) == LogFirst(m, TestNames, outcome, Len(TestNames))

\* Misc.draw_test: every DrawInterval-th batch is written as two .obj files
DrawInterval == 25
PredObjFile(batch_index)  == ToString(batch_index) \o "_outfile_pred.obj"
LabelObjFile(batch_index) == ToString(batch_index) \o "_outfile_label.obj"

\* a draw_test that writes the files of every batch
draw_test_every_batch(fs, batch_index) ==
    WriteFile(WriteFile(fs, PredObjFile(batch_index), "obj"),
              LabelObjFile(batch_index), "obj")

draw_test(fs, batch_index) ==
    IF batch_index % DrawInterval # 0 THEN fs
    ELSE WriteFile(WriteFile(fs, PredObjFile(batch_index), "obj"),
                   LabelObjFile(batch_index), "obj")

\* a draw_test that raises while it writes the prediction (lines 292-294; so
\* it does for a batch of one query point that is predicted, whose rows are
\* no triples): the prediction file is open and empty, the label file is not
\* written
draw_test_raises(fs, batch_index) == WriteFile(fs, PredObjFile(batch_index), "")

\* validate(): lines 137-167; it returns the three means
CallValidate(outcome) ==
    /\ ~Busy
    /\ training' = FALSE
    /\ w_called' = Call("validate", "", 0, FALSE)
    /\ w_ret' = Returned(outcome)
    /\ UNCHANGED <<num_test_batches, metric_vars, store_vars, train_vars>>

\* validate() with a batch whose forward pass, loss or metric raises
CallValidateFails ==
    /\ ~Busy
    /\ training' = FALSE
    /\ w_called' = Call("validate", "", 0, FALSE)
    /\ w_ret' = Raises("Error")
    /\ UNCHANGED <<num_test_batches, metric_vars, store_vars, train_vars>>

\* test(draw) is called: lines 180-185
TestCall(draw) ==
    /\ ~Busy
    /\ w_called' = [Call("test", "", 0, FALSE) EXCEPT !.draw = draw]
    /\ w_ret' = Returned(None)
    /\ batch' = 0
    /\ pc' = IF num_test_batches = 0 THEN "test_save" ELSE "test_batch"
    /\ UNCHANGED <<eval_vars, metric_vars, store_vars, t_args, epoch, best_loss,
                   validation, progress_bar, ops>>

\* one test batch, lines 187-245
TestBatch(outcome) ==
    /\ pc = "test_batch"
    /\ training' = FALSE
    /\ files' = IF w_called.draw THEN draw_test(files, batch) ELSE files
    /\ metrics' = LogAll(metrics, outcome)
    /\ batch' = batch + 1
    /\ pc' = IF batch + 1 = num_test_batches THEN "test_save" ELSE "test_batch"
    /\ UNCHANGED <<num_test_batches, w_called, w_ret, metric_vars, models, network,
                   num_batches, device, t_args, epoch, best_loss, validation, progress_bar, ops>>

\* the logging calls of a test batch (of its 14) that are done when a metric
\* raises: none when intersection_over_union raises (line 217), 1 when the
\* bounding box raises (220), 8 when precision raises (231), 9 recall (234),
\* 10 the loss function (237), 11 get_tensor_size_mb (240-242)
FailPoints == {0, 1, 8, 9, 10, 11}

\* how far a test batch that raises has come: the loader raised (line 187),
\* the device transfer or the forward pass raised (lines 191-209, after
\* eval()), draw_test raised, or a metric raised (lines 217-242, after
\* draw_test)
TestStages == {"loader", "forward", "draw_test", "metrics"}

\* a test batch that raises at a stage, after its first k logging calls
TestBatchFails(outcome, k, stage) ==
    /\ pc = "test_batch"
    /\ k > 0 => stage = "metrics"
    /\ stage = "draw_test" => w_called.draw /\ batch % DrawInterval = 0
    /\ training' = IF stage = "loader" THEN training ELSE FALSE
    /\ files' = IF ~w_called.draw \/ stage \in {"loader", "forward"} THEN files
                ELSE IF stage = "draw_test" THEN draw_test_raises(files, batch)
                ELSE draw_test(files, batch)
    /\ metrics' = LogFirst(metrics, TestNames, outcome, k)
    /\ w_ret' = Raises("Error")
    /\ pc' = "aborted"
    /\ UNCHANGED <<num_test_batches, w_called, metric_vars, models, network, num_batches, device,
                   t_args, epoch, batch, best_loss, validation, progress_bar, ops>>

\* line 250
TestSave ==
    /\ pc = "test_save"
    /\ LET saved == save_metrics(files, metrics, FALSE)
       IN  /\ files' = saved.files
           /\ pc' = IF saved.raised THEN "aborted" ELSE "test_averages"
           /\ w_ret' = IF saved.raised THEN Raises("Error") ELSE w_ret
    /\ UNCHANGED <<eval_vars, w_called, metric_vars, metrics, models, network, num_batches, device,
                   t_args, epoch, batch, best_loss, validation, progress_bar, ops>>

\* lines 252-278: the averages of the fourteen series, five of them returned
TestResult(m) ==
    [iou              |-> get_average_metric(m, "iou").value,
     iou_bounding_box |-> get_average_metric(m, "iou_bounding_box").value,
     precision        |-> get_average_metric(m, "precision").value,
     recall           |-> get_average_metric(m, "recall").value,
     test_loss        |-> get_average_metric(m, "test_loss").value]
TestAverages ==
    /\ pc = "test_averages"
    /\ IF \E i \in 1..Len(TestNames) : get_average_metric(metrics, TestNames[i]).raised # "no"
       THEN LET i == CHOOSE j \in 1..Len(TestNames) :
                         /\ get_average_metric(metrics, TestNames[j]).raised # "no"
                         /\ \A h \in 1..j - 1 :
                                get_average_metric(metrics, TestNames[h]).raised = "no"
            IN  /\ w_ret' = get_average_metric(metrics, TestNames[i])
                /\ pc' = "aborted"
       ELSE /\ w_ret' = Returned(TestResult(metrics))
            /\ pc' = "test_returned"
    /\ UNCHANGED <<eval_vars, w_called, metric_vars, store_vars, t_args, epoch, batch,
                   best_loss, validation, progress_bar, ops>>

----------------------------------------------------------------------------
(* Actions of the metric functions and of the store *)

\* the metric functions are applied to the inputs drawn in InitMetric
CallIntersectionOverUnion ==
    /\ m_called' = "intersection_over_union"
    /\ m_offset' = NoOffset
    /\ m_ret' = intersection_over_union(m_args.prediction, m_args.coordinates,
                                         m_args.label, m_args.threshold)
    /\ UNCHANGED <<eval_vars, call_vars, kdtree_rejects_empty, m_args, store_vars, train_vars>>

CallIntersectionOverUnionBoundingBox ==
    \E offset \in Offsets :
        /\ m_called' = "intersection_over_union_bounding_box"
        /\ m_offset' = offset
        /\ m_ret' = intersection_over_union_bounding_box(
                        m_args.prediction, m_args.coordinates, m_args.label,
                        m_args.threshold, offset)
        /\ UNCHANGED <<eval_vars, call_vars, kdtree_rejects_empty, m_args, store_vars, train_vars>>

CallPrecision ==
    /\ m_called' = "precision"
    /\ m_offset' = NoOffset
    /\ m_ret' = precision(m_args.prediction, m_args.coordinates,
                           m_args.label, m_args.threshold)
    /\ UNCHANGED <<eval_vars, call_vars, kdtree_rejects_empty, m_args, store_vars, train_vars>>

CallRecall ==
    /\ m_called' = "recall"
    /\ m_offset' = NoOffset
    /\ m_ret' = recall(m_args.prediction, m_args.coordinates,
                        m_args.label, m_args.threshold)
    /\ UNCHANGED <<eval_vars, call_vars, kdtree_rejects_empty, m_args, store_vars, train_vars>>

MetricNames == {"train_loss", "epoch"}
LoggedValues == {None, Num(1), Num(2)}

\* self.logging(metric_name, value)
CallLogging(metric_name, value) ==
    /\ Len(SeriesOrEmpty(metrics, metric_name)) < MaxLen
    /\ metrics' = logging(metrics, metric_name, value)
    /\ UNCHANGED <<eval_vars, call_vars, metric_vars, files, models, network, num_batches, device, train_vars>>

\* self.get_average_metric_for_epoch(metric_name, epoch)
CallGetAverageMetricForEpoch(metric_name, e) ==
    /\ w_called' = Call("get_average_metric_for_epoch", metric_name, e, FALSE)
    /\ w_ret' = get_average_metric_for_epoch(metrics, metric_name, e)
    /\ UNCHANGED <<eval_vars, metric_vars, store_vars, train_vars>>

\* self.get_average_metric(metric_name)
CallGetAverageMetric(metric_name) ==
    /\ w_called' = Call("get_average_metric", metric_name, 0, FALSE)
    /\ w_ret' = get_average_metric(metrics, metric_name)
    /\ UNCHANGED <<eval_vars, metric_vars, store_vars, train_vars>>

\* OccupancyNetworkWrapper.save_metrics(self.metrics, path, add_time_to_file_name)
CallSaveMetrics(add_time_to_file_name) ==
    LET saved == save_metrics(files, metrics, add_time_to_file_name)
    IN  /\ w_called' = Call("save_metrics", "", 0, add_time_to_file_name)
        /\ w_ret' = IF saved.raised THEN Raises("Error") ELSE Returned(None)
        /\ files' = saved.files
        /\ UNCHANGED <<eval_vars, metric_vars, metrics, models, network, num_batches, device, train_vars>>

----------------------------------------------------------------------------
(* Specifications *)

NoCall == [op |-> "none", metric_name |-> "", epoch |-> 0, add_time_to_file_name |-> FALSE,
           draw |-> FALSE]

\* __init__ ends by dumping the dict hyperparameter, with these keys, into the
\* file hyperparameter.txt of the metrics folder
HyperparameterFile == "hyperparameter.txt"
Hyperparameter == <<"model", "optim", "loss">>
NewFiles == WriteFile(<<>>, HyperparameterFile, Hyperparameter)

\* the wrapper after __init__ (line 44: self.metrics = dict()), train() not called
InitIdle ==
    /\ files = NewFiles
    /\ models = <<>>
    /\ network = 0
    /\ pc = "idle"
    /\ t_args = NoTrainArgs
    /\ epoch = 0
    /\ batch = 0
    /\ best_loss = PosInf
    /\ validation = NoValidation
    /\ progress_bar = NoProgress
    /\ ops = <<>>
    /\ w_called = NoCall
    /\ w_ret = Returned(None)
    /\ training = TRUE
InitWrapper ==
    /\ metrics = <<>>
    /\ InitIdle

InitNoCall ==
    /\ m_called = "none"
    /\ m_offset = NoOffset
    /\ m_ret = Scalar(Exact(0))

\* the inputs of the metric functions; what pykdtree does with an empty point
\* set matters for an empty label only
InitMetric ==
    /\ \E q \in Queries, l \in Labels, t \in Thresholds :
           /\ m_args = Args(q, l, t)
           /\ kdtree_rejects_empty \in (IF l = {} THEN BOOLEAN ELSE {FALSE})
    /\ InitNoCall
    /\ InitWrapper
    /\ num_batches = 1
    /\ device = Device
    /\ num_test_batches = 1

NextMetric ==
    \/ CallIntersectionOverUnion
    \/ CallIntersectionOverUnionBoundingBox
    \/ CallPrecision
    \/ CallRecall

SpecMetric == InitMetric /\ [][NextMetric]_vars

\* inputs for the bounding boxes: every query point at most once, in a fixed
\* order, on the diagonal 0..MaxCoord or at one point off it
BoxPointSeq == [c \in 1..MaxCoord + 1 |-> <<c - 1, c - 1, c - 1>>] \o << <<2, 0, 1>> >>
BoxPoints == {BoxPointSeq[i] : i \in 1..Len(BoxPointSeq)}
BoxScores == {5, 9}
Absent == 0
BoxQuery(f) ==
    Masked([i \in 1..Len(BoxPointSeq) |-> <<BoxPointSeq[i], f[i]>>],
           [i \in 1..Len(BoxPointSeq) |-> f[i] # Absent])

InitBox ==
    /\ \E f \in [1..Len(BoxPointSeq) -> BoxScores \cup {Absent}], l \in SUBSET BoxPoints,
          t \in Thresholds :
           /\ m_args = Args(BoxQuery(f), l, t)
           /\ kdtree_rejects_empty \in (IF l = {} THEN BOOLEAN ELSE {FALSE})
    /\ InitNoCall
    /\ InitWrapper
    /\ num_batches = 1
    /\ device = Device
    /\ num_test_batches = 1

NextBox == CallIntersectionOverUnionBoundingBox

SpecBox == InitBox /\ [][NextBox]_vars

\* Python objects handed to parse_to_list: an int, a tuple of ints or a list
PyInt(n)       == [type |-> "int", items |-> <<>>, value |-> n]
PyTuple(items) == [type |-> "tuple", items |-> items, value |-> 0]
PyList(items)  == [type |-> "list", items |-> items, value |-> 0]
isinstance_list(object) == object.type = "list"

\* [object] * length
Repeated(object, length) == PyList([i \in 1..length |-> object])

\* a parse_to_list that cuts or pads the list to the length wanted
parse_to_list_fitting(possible_list, length) ==
    IF isinstance_list(possible_list)
    THEN Returned(PyList([i \in 1..length |->
                             IF i <= Len(possible_list.items)
                             THEN possible_list.items[i] ELSE PyInt(0)]))
    ELSE Returned(Repeated(possible_list, length))

parse_to_list(possible_list, length) ==
    IF isinstance_list(possible_list)
    THEN IF Len(possible_list.items) = length
         THEN Returned(possible_list)
         ELSE Raises("AssertionError")
    ELSE Returned(Repeated(possible_list, length))

ParseValues == {PyInt(1), PyInt(2)}
ParseLists == {PyList(items) : items \in UNION {[1..n -> ParseValues] : n \in 0..MaxLen}}
ParseObjects == ParseLists \cup ParseValues \cup {PyTuple(<<PyInt(1), PyInt(2)>>)}
ParseLengths == 0..MaxLen + 1
ParseArgs(possible_list, length) == [possible_list |-> possible_list, length |-> length]

InitParse ==
    /\ \E possible_list \in ParseObjects, length \in ParseLengths :
           m_args = ParseArgs(possible_list, length)
    /\ kdtree_rejects_empty = FALSE
    /\ InitNoCall
    /\ InitWrapper
    /\ num_batches = 1
    /\ device = Device
    /\ num_test_batches = 1

CallParseToList ==
    /\ m_called' = "parse_to_list"
    /\ m_ret' = parse_to_list(m_args.possible_list, m_args.length)
    /\ UNCHANGED <<eval_vars, call_vars, kdtree_rejects_empty, m_args, m_offset, store_vars,
                   train_vars>>

NextParse == CallParseToList

SpecParse == InitParse /\ [][NextParse]_vars

InitStore ==
    /\ kdtree_rejects_empty = FALSE
    /\ m_args = Args(<<>>, {}, 5)
    /\ InitNoCall
    /\ InitWrapper
    /\ num_batches = 1
    /\ device = Device
    /\ num_test_batches = 1

\* the stores the averages are taken of: a series of losses and the series
\* 'epoch', each absent or of a length up to MaxLen, as logging() builds them
AverageNames  == {"train_loss", "validation_loss"}
AverageValues == {Num(1), Num(3), Num(5)}
EpochValues   == {Num(0), Num(1)}
QueriedNames  == AverageNames \cup {"epoch"}
QueriedEpochs == {0, 1, 2}
SeriesOver(V) == UNION {[1..n -> V] : n \in 0..MaxLen}
Item(metric_name, values) ==
    IF values = <<>> THEN <<>> ELSE <<[name |-> metric_name, values |-> values]>>

InitAverage ==
    /\ \E metric_name \in AverageNames, values \in SeriesOver(AverageValues),
          epochs \in SeriesOver(EpochValues) :
           metrics = Item(metric_name, values) \o Item("epoch", epochs)
    /\ kdtree_rejects_empty = FALSE
    /\ m_args = Args(<<>>, {}, 5)
    /\ InitNoCall
    /\ InitIdle
    /\ num_batches = 1
    /\ device = Device
    /\ num_test_batches = 1

NextAverage ==
    \/ \E metric_name \in QueriedNames, e \in QueriedEpochs :
           CallGetAverageMetricForEpoch(metric_name, e)
    \/ \E metric_name \in QueriedNames : CallGetAverageMetric(metric_name)

SpecAverage == InitAverage /\ [][NextAverage]_vars

\* evaluation of a wrapper whose store may hold series logged before
InitEval ==
    /\ kdtree_rejects_empty = FALSE
    /\ m_args = Args(<<>>, {}, 5)
    /\ InitNoCall
    /\ InitWrapper
    /\ num_batches = 1
    /\ device = Device
    /\ num_test_batches \in 0..2

\* what the batch that raises has measured before it raises
FailedOutcome == [metric_name \in TestNameSet |-> Num(1)]

\* the test passes of SpecEval log MaxTests batches at most
TestFits == Len(SeriesOrEmpty(metrics, "iou")) + num_test_batches <= MaxTests

NextEval ==
    \/ ~Busy /\ CallLogging("train_loss", Num(1))
    \/ \E outcome \in ValOutcomes : CallValidate(outcome)
    \/ CallValidateFails
    \/ CallGetNumberOfNetworkParameters
    \/ TestFits /\ \E draw \in BOOLEAN : TestCall(draw)
    \/ \E outcome \in TestOutcomes : TestBatch(outcome)
    \/ \E k \in FailPoints, stage \in TestStages : TestBatchFails(FailedOutcome, k, stage)
    \/ TestSave
    \/ TestAverages

SpecEval == InitEval /\ [][NextEval]_vars

\* validate() and test() over batches the metric functions of Misc measure
TestOffset == <<1, 1, 1>>
Inside == <<0, 0, 0>>
Corner == <<2, 2, 2>>
Outside == <<1, 1, 1>>
Low == 1
High == 9
\* a batch: the number of elements of the volume, the query points with the
\* network's predictions, and the label
Batch(nelement, args) ==
    [volume |-> nelement, coordinates |-> args.coordinates,
     prediction |-> args.prediction, label |-> args.label, threshold |-> args.threshold]
MeasureBatches ==
    {Batch(8, Args(<<<<Inside, High>>, <<Corner, High>>, <<Outside, Low>>>>,
                   {Inside, Corner}, 5)),
     Batch(8, Args(<<<<Inside, High>>, <<Outside, High>>>>, {Inside}, 5)),
     Batch(27, Args(<<<<Inside, Low>>, <<Outside, Low>>>>, {Inside}, 5)),
     Batch(8, Args(<<>>, {Inside}, 5)),
     Batch(27, Args(<<<<Outside, High>>>>, {Inside}, 5)),
     Batch(8, Args(<<<<Outside, High>>>>, {}, 5))}

BoundingBox(data) ==
    intersection_over_union_bounding_box(data.prediction, data.coordinates, data.label,
                                         data.threshold, TestOffset)
IoU(data) ==
    intersection_over_union(data.prediction, data.coordinates, data.label, data.threshold)
\* the test data: every tensor holds 32-bit floats, and the data set has the
\* side length side_len (line 183: upsample_factor = side_len ** 3)
TestTensors == [element_size |-> 4, side_len |-> 2]
\* what the loss function returns for a test or validation batch
TestLoss == Num(1)
\* Misc.get_tensor_size_mb: tensor.nelement() * tensor.element_size() * 1e-6
get_tensor_size_mb(nelement, element_size) == Float(nelement * element_size, 1000000)
\* a float times an int (line 240)
Times(x, k) == Float(x.v * k, Den(x))

\* lines 217-245: what test() logs for a batch, by series; a metric that
\* raises gives no value.  prediction has one element per query point and
\* actual three per label point.
Measure(data) ==
    LET bb == BoundingBox(data)
        axis(metric_name) ==
            IF metric_name \in {"bounding_box_shape_x", "bounding_box_error_x"} THEN 1
            ELSE IF metric_name \in {"bounding_box_shape_y", "bounding_box_error_y"} THEN 2
            ELSE 3
    IN  [metric_name \in TestNameSet |->
            IF IoU(data).raised THEN None
            ELSE IF metric_name = "iou" THEN item(IoU(data).iou)
            ELSE IF metric_name = "precision"
            THEN item(precision(data.prediction, data.coordinates, data.label,
                                data.threshold).iou)
            ELSE IF metric_name = "recall"
            THEN item(recall(data.prediction, data.coordinates, data.label,
                             data.threshold).iou)
            ELSE IF metric_name = "test_loss" THEN TestLoss
            ELSE IF metric_name = "size_volume"
            THEN Times(get_tensor_size_mb(data.volume, TestTensors.element_size),
                       TestTensors.side_len * TestTensors.side_len * TestTensors.side_len)
            ELSE IF metric_name = "size_prediction"
            THEN get_tensor_size_mb(Len(data.prediction), TestTensors.element_size)
            ELSE IF metric_name = "size_actual"
            THEN get_tensor_size_mb(3 * Cardinality(data.label), TestTensors.element_size)
            ELSE IF bb.raised THEN None
            ELSE IF metric_name = "iou_bounding_box" THEN item(bb.iou)
            ELSE IF metric_name \in {"bounding_box_shape_x", "bounding_box_shape_y",
                                     "bounding_box_shape_z"}
            THEN Num(bb.shape[axis(metric_name)])
            ELSE Num(bb.error[axis(metric_name)])]

\* the batch has one query point and the network predicts it: torch.squeeze
\* (line 207) leaves a mask without dimension, and the rows draw_test gets are
\* no triples
OnePredicted(data) ==
    Len(data.coordinates) = 1 /\ data.prediction[1] > data.threshold

\* a test batch: intersection_over_union (line 217) is computed after
\* draw_test and before anything is logged, the bounding box (line 220) after
\* 'iou' is logged
TestBatchMeasured(data) ==
    IF w_called.draw /\ batch % DrawInterval = 0 /\ OnePredicted(data)
    THEN TestBatchFails(Measure(data), 0, "draw_test")
    ELSE IF IoU(data).raised
    THEN TestBatchFails(Measure(data), 0, "metrics")
    ELSE IF BoundingBox(data).raised
    THEN TestBatchFails(Measure(data), 1, "metrics")
    ELSE TestBatch(Measure(data))

\* lines 139-167: the means validate() returns over its batches
ValidationSets == UNION {[1..n -> MeasureBatches] : n \in 0..2}
ValidateOutcome(batches) ==
    [loss   |-> np_mean([i \in 1..Len(batches) |-> TestLoss]).value,
     iou    |-> np_mean([i \in 1..Len(batches) |-> Measure(batches[i])["iou"]]).value,
     bb_iou |-> np_mean([i \in 1..Len(batches) |->
                            Measure(batches[i])["iou_bounding_box"]]).value]
CallValidateMeasured(batches) ==
    IF \E i \in 1..Len(batches) : IoU(batches[i]).raised \/ BoundingBox(batches[i]).raised
    THEN CallValidateFails
    ELSE CallValidate(ValidateOutcome(batches))

InitMeasure ==
    /\ kdtree_rejects_empty \in BOOLEAN
    /\ m_args = Args(<<>>, {}, 5)
    /\ InitNoCall
    /\ InitWrapper
    /\ num_batches = 1
    /\ device = Device
    /\ num_test_batches \in 1..MaxTests

NextMeasure ==
    \/ \E draw \in BOOLEAN : TestFits /\ TestCall(draw)
    \/ \E data \in MeasureBatches : TestBatchMeasured(data)
    \/ TestSave
    \/ TestAverages
    \/ \E batches \in ValidationSets : CallValidateMeasured(batches)

SpecMeasure == InitMeasure /\ [][NextMeasure]_vars

\* one test pass over a test set that reaches the batch indices
\* 0, DrawInterval, ..., MaxDraws * DrawInterval
InitDraw ==
    /\ kdtree_rejects_empty = FALSE
    /\ m_args = Args(<<>>, {}, 5)
    /\ InitNoCall
    /\ InitWrapper
    /\ num_batches = 1
    /\ device = Device
    /\ num_test_batches \in {k * DrawInterval + 1 : k \in 0..MaxDraws}

\* what the batch of an index measures, drawn or not
DrawMeasure(batch_index) == [metric_name \in TestNameSet |-> Num((batch_index % 2) + 1)]

NextDraw ==
    \/ w_called = NoCall /\ \E draw \in BOOLEAN : TestCall(draw)
    \/ TestBatch(DrawMeasure(batch))
    \/ \E k \in {0, 1}, stage \in TestStages : TestBatchFails(DrawMeasure(batch), k, stage)
    \/ TestSave
    \/ TestAverages

SpecDraw == InitDraw /\ [][NextDraw]_vars

\* the wrapper's lifetime: any sequence of calls of its methods, one at a time
InitLife ==
    /\ kdtree_rejects_empty = FALSE
    /\ m_args = Args(<<>>, {}, 5)
    /\ InitNoCall
    /\ InitWrapper
    /\ num_batches \in {0, 1}
    /\ device \in Devices
    /\ num_test_batches = 1

\* one value of every input keeps the lifetime small
LifeEpochs == {0, 1}
LifeLoss == Num(1)
LifeValidation == [loss |-> Num(1), iou |-> Num(1), bb_iou |-> Num(1)]
LifeTest == [metric_name \in TestNameSet |-> Num(1)]

\* the entries logged so far by training batches, by hand and by test batches
LifeSize ==
    Len(SeriesOrEmpty(metrics, "train_loss")) + Len(SeriesOrEmpty(metrics, "iou"))
    + (IF num_batches = 0 THEN Len(SeriesOrEmpty(metrics, "validation_loss")) ELSE 0)
Young == ~Busy /\ LifeSize < MaxLife

\* a training is not started again after a call that raised; everything else is
NextLife ==
    \/ Young /\ pc # "aborted" /\ \E epochs \in LifeEpochs : TrainCall(epochs, TRUE, 1)
    \/ CallGetNumberOfNetworkParameters
    \/ TrainBatch(LifeLoss)
    \/ TrainValidate(LifeValidation)
    \/ TrainCheckpoint
    \/ TrainSaveMetrics
    \/ TrainFails
    \/ TrainLogFails(LifeLoss)
    \/ CallValidate(LifeValidation)
    \/ Young /\ TestCall(FALSE)
    \/ TestBatch(LifeTest)
    \/ \E stage \in {"loader", "metrics"} : TestBatchFails(LifeTest, 0, stage)
    \/ TestBatchFails(LifeTest, 1, "metrics")
    \/ TestSave
    \/ TestAverages
    \/ Young /\ \E value \in {None, Num(2)} : CallLogging("train_loss", value)
    \/ ~Busy /\ CallGetAverageMetric("train_loss")
    \/ ~Busy /\ CallGetAverageMetricForEpoch("train_loss", 0)
    \/ ~Busy /\ CallSaveMetrics(FALSE)

SpecLife == InitLife /\ [][NextLife]_vars

NextStore ==
    \/ \E metric_name \in MetricNames, value \in LoggedValues :
           CallLogging(metric_name, value)
    \/ \E add_time_to_file_name \in BOOLEAN : CallSaveMetrics(add_time_to_file_name)

SpecStore == InitStore /\ [][NextStore]_vars

InitTrain ==
    /\ kdtree_rejects_empty = FALSE
    /\ m_args = Args(<<>>, {}, 5)
    /\ InitNoCall
    /\ InitWrapper
    /\ num_batches \in BatchCounts
    /\ device = Device
    /\ num_test_batches = 1

\* the training script: it calls train() again after a call that returned, and
\* ends with the exception of a call that raised
NextTrain ==
    \/ /\ pc # "aborted"
       /\ \E epochs \in 1..MaxEpochs, save_best_model \in BOOLEAN, n \in EveryN :
              TrainCall(epochs, save_best_model, n)
    \/ \E loss \in TrainLosses : TrainBatch(loss)
    \/ \E outcome \in ValOutcomes : TrainValidate(outcome)
    \/ TrainCheckpoint
    \/ TrainSaveMetrics
    \/ TrainFails
    \/ \E loss \in TrainLosses : TrainLogFails(loss)

SpecTrain == InitTrain /\ [][NextTrain]_vars

----------------------------------------------------------------------------
(* The masks as the specification states them, for the claims about the    *)
(* metric functions: G is true where the query point is a label point, P   *)
(* where the score is above the threshold.                                 *)

QueryIndices == 1..Len(m_args.coordinates)
G(i) == m_args.coordinates[i] \in m_args.label
P(i) == m_args.prediction[i] > m_args.threshold
Zeros == <<0, 0, 0>>
EmptyLabelSentinel == Triple(Exact(1), Zeros, Zeros)
EmptyPredictionSentinel == Triple(Exact(0), Zeros, Zeros)

----------------------------------------------------------------------------
(* Claims about the metric store *)

\* C1: logging(name, None) is a no-op for every metric name, whether or not
\* a series of that name exists: no series is created, none changes length
\* and no None becomes an element of a series.
C1_LoggingNoneIsNoOp ==
    [][\A metric_name \in MetricNames :
          CallLogging(metric_name, None) => metrics' = metrics]_vars

----------------------------------------------------------------------------
(* Claims about the metric functions *)

\* C2: intersection_over_union_bounding_box returns the empty-label sentinel
\* (flag 1, zero vectors) whenever the ground-truth subset is empty, also
\* for an empty label set with a non-empty query set, and the
\* empty-prediction sentinel (flag 0, zero vectors) when the ground-truth
\* subset is non-empty and no prediction exceeds the threshold; neither
\* case raises.  (Stated for the calls in which the kd-tree over the label
\* points is built, so that a violation is the function's own doing.)
C2_BoundingBoxSentinels ==
    (m_called = "intersection_over_union_bounding_box" /\ ~KDTreeFails(m_args.label)) =>
        /\ (\A i \in QueryIndices : ~G(i)) => m_ret = EmptyLabelSentinel
        /\ ((\E i \in QueryIndices : G(i)) /\ (\A i \in QueryIndices : ~P(i)))
               => m_ret = EmptyPredictionSentinel

\* C7: intersection_over_union returns intersection / (union + 1e-9) with
\* intersection = count(G and P) and union = count(G or P); when both masks
\* are all-false the result is 0 and nothing is raised.  (The masks exist
\* once the kd-tree over the label points is built.)
C7_PointIoU ==
    m_called = "intersection_over_union" =>
        IF KDTreeFails(m_args.label) THEN m_ret.raised
        ELSE /\ m_ret = Scalar(Ratio(Cardinality({i \in QueryIndices : G(i) /\ P(i)}),
                                     Cardinality({i \in QueryIndices : G(i) \/ P(i)})))
             /\ (\A i \in QueryIndices : ~G(i) /\ ~P(i))
                    => ~m_ret.raised /\ m_ret.iou.num = 0

C7_Witness ==
    /\ m_called = "intersection_over_union"
    /\ m_ret = Scalar(Ratio(1, 3))
    /\ \E i \in QueryIndices : m_args.prediction[i] = m_args.threshold

\* C8: intersection_over_union with a thresholded prediction mask identical
\* to a non-empty ground-truth mask returns 1.0 up to the epsilon term
\* (n / (n + 1e-9) with n > 0); label {(0,0,0),(1,1,1)}, query
\* (0,0,0),(1,1,1),(2,2,2), scores 0.9, 0.9, 0.1, threshold 0.5 gives 1.0.
C8_Example ==
    /\ m_args.label = {<<0, 0, 0>>, <<1, 1, 1>>}
    /\ m_args.coordinates = <<<<0, 0, 0>>, <<1, 1, 1>>, <<2, 2, 2>>>>
    /\ m_args.prediction = <<9, 9, 1>>
    /\ m_args.threshold = 5

C8_IdenticalMasks ==
    m_called = "intersection_over_union" =>
        /\ ((\A i \in QueryIndices : G(i) <=> P(i)) /\ (\E i \in QueryIndices : G(i)))
               => /\ ~m_ret.raised
                  /\ m_ret.iou.eps
                  /\ m_ret.iou.num = m_ret.iou.den
                  /\ m_ret.iou.num = Cardinality({i \in QueryIndices : G(i)})
        /\ C8_Example => m_ret = Scalar(Ratio(2, 2))

C8_Witness == m_called = "intersection_over_union" /\ C8_Example /\ ~m_ret.raised

\* C9: precision returns tp / (tp + fp + 1e-9) with tp = count(P and G) and
\* fp = count(P and not G); with no predicted positive it returns 0 and
\* does not raise.
C9_Precision ==
    m_called = "precision" =>
        IF KDTreeFails(m_args.label) THEN m_ret.raised
        ELSE LET tp == Cardinality({i \in QueryIndices : P(i) /\ G(i)})
                 fp == Cardinality({i \in QueryIndices : P(i) /\ ~G(i)})
             IN  /\ m_ret = Scalar(Ratio(tp, tp + fp))
                 /\ (\A i \in QueryIndices : ~P(i))
                        => ~m_ret.raised /\ m_ret.iou.num = 0

C9_Witness ==
    /\ m_called = "precision"
    /\ m_ret = Scalar(Ratio(1, 2))
    /\ \E i \in QueryIndices : ~P(i) /\ G(i)

\* C10: recall returns tp / (tp + fn + 1e-9) with tp = count(P and G) and
\* fn = count(not P and G); with no ground-truth positive it returns 0 and
\* does not raise.
C10_Recall ==
    m_called = "recall" =>
        IF KDTreeFails(m_args.label) THEN m_ret.raised
        ELSE LET tp == Cardinality({i \in QueryIndices : P(i) /\ G(i)})
                 fn == Cardinality({i \in QueryIndices : ~P(i) /\ G(i)})
             IN  /\ m_ret = Scalar(Ratio(tp, tp + fn))
                 /\ (\A i \in QueryIndices : ~G(i))
                        => ~m_ret.raised /\ m_ret.iou.num = 0

C10_Witness ==
    /\ m_called = "recall"
    /\ m_ret = Scalar(Ratio(1, 2))
    /\ \E i \in QueryIndices : P(i) /\ ~G(i)

----------------------------------------------------------------------------
(* Claims about train() *)

\* the steps of train(), recognised in a transition
CheckpointStep == pc = "checkpoint" /\ pc' = "save"
BatchStep      == pc = "batch" /\ pc' # "aborted" /\ network' = network + 1
EpochEndStep   == pc = "save" /\ pc' \in {"batch", "returned"}

\* a model file holds the network as it is now: it was written in this epoch
\* (every epoch takes at least one optimizer step, so no earlier write holds it)
HoldsNetwork(ms, file_name) == file_name \in DOMAIN ms /\ ms[file_name] = network
SameFile(ms1, ms2, file_name) ==
    IF file_name \in DOMAIN ms1
    THEN file_name \in DOMAIN ms2 /\ ms2[file_name] = ms1[file_name]
    ELSE file_name \notin DOMAIN ms2

\* the validation losses this call of train() has logged so far, the current
\* epoch's last (validate has run in the current epoch)
CallValidationLosses ==
    LET series == SeriesOrEmpty(metrics, "validation_loss")
    IN  SubSeq(series, Len(series) - epoch, Len(series))
\* the lowest number among losses, +infinity when there is none (a NaN is
\* never lower than anything)
Lowest(losses) ==
    LET numbers == {losses[i].v : i \in {j \in 1..Len(losses) : losses[j].kind = "num"}}
    IN  IF numbers = {} THEN PosInf ELSE Num(Min(numbers))
StrictlyLower(a, b) ==
    a.kind = "num" /\ (b.kind = "inf" \/ (b.kind = "num" /\ a.v < b.v))

\* C3 as stated: in train() a best checkpoint is written in exactly the
\* epochs whose validation loss is strictly lower than the best validation
\* loss of all earlier epochs (+infinity at first), and after each epoch the
\* tracked best loss is the minimum validation loss seen so far.
C3_BestCheckpointAlways ==
    [][CheckpointStep =>
          LET losses == CallValidationLosses
              earlier == SubSeq(losses, 1, Len(losses) - 1)
          IN  /\ HoldsNetwork(models', BestModelFile)
                     <=> StrictlyLower(validation.loss, Lowest(earlier))
              /\ best_loss' = Lowest(losses)]_vars

\* C3 amended: with save_best_model true the above holds; with
\* save_best_model false no best checkpoint is written and the tracked best
\* loss stays +infinity.
C3_BestCheckpoint ==
    [][CheckpointStep =>
          LET losses == CallValidationLosses
              earlier == SubSeq(losses, 1, Len(losses) - 1)
          IN  IF t_args.save_best_model
              THEN /\ HoldsNetwork(models', BestModelFile)
                          <=> StrictlyLower(validation.loss, Lowest(earlier))
                   /\ ~StrictlyLower(validation.loss, Lowest(earlier))
                          => SameFile(models, models', BestModelFile)
                   /\ best_loss' = Lowest(losses)
              ELSE /\ SameFile(models, models', BestModelFile)
                   /\ best_loss' = PosInf]_vars

\* the second epoch of a call improves on the first and writes the best model
C3_Witness ==
    /\ pc = "save"
    /\ epoch = 1
    /\ t_args.save_best_model
    /\ CallValidationLosses = <<Num(2), Num(1)>>
    /\ HoldsNetwork(models, BestModelFile)

\* C4: a periodic checkpoint is written in exactly the epochs whose
\* zero-based index is a multiple of save_model_every_n_epoch, whether or
\* not the validation loss improved; the periodic write and the best write
\* are independent and the periodic write never replaces or suppresses the
\* best checkpoint.
C4_PeriodicCheckpoint ==
    [][CheckpointStep =>
          LET improved == t_args.save_best_model /\ Greater(best_loss, validation.loss)
          IN  /\ HoldsNetwork(models', EpochModelFile(epoch))
                     <=> epoch % t_args.save_model_every_n_epoch = 0
              /\ epoch % t_args.save_model_every_n_epoch # 0
                     => SameFile(models, models', EpochModelFile(epoch))
              /\ EpochModelFile(epoch) # BestModelFile
              /\ improved => HoldsNetwork(models', BestModelFile)
              /\ ~improved => SameFile(models, models', BestModelFile)
              /\ \A f \in DOMAIN models' :
                     f \in DOMAIN models \/ f \in {BestModelFile, EpochModelFile(epoch)}]_vars

\* both checkpoints written in one epoch, a later one than the first
C4_Witness ==
    /\ pc = "save"
    /\ epoch = 1
    /\ HoldsNetwork(models, BestModelFile)
    /\ HoldsNetwork(models, EpochModelFile(1))

\* what is saved of a series, and how many of its values are not saved
SavedSeries(metric_name) ==
    IF MetricFile(metric_name) \in DOMAIN files THEN files[MetricFile(metric_name)]
    ELSE <<>>
IsPrefix(s, t) == Len(s) <= Len(t) /\ SubSeq(t, 1, Len(s)) = s
NotSaved(metric_name) ==
    Len(Series(metrics, metric_name)) - Len(SavedSeries(metric_name))

\* C5 as stated: train() saves the whole metric store exactly once at the end
\* of every epoch, after validation and checkpointing; so, whenever the run is
\* in or aborts in epoch e, the saved files hold every value logged in epochs
\* 0..e-1: only values of the current epoch can be missing.
C5_MetricsSavedAnyAbort ==
    /\ [](((pc \in {"batch", "validate", "checkpoint", "save", "aborted"}) /\ epoch >= 1) =>
            \A metric_name \in Keys(metrics) :
                /\ IsPrefix(SavedSeries(metric_name), Series(metrics, metric_name))
                /\ NotSaved(metric_name) <=
                       IF metric_name \in {"train_loss", "epoch"} THEN batch
                       ELSE IF pc \in {"checkpoint", "save", "aborted"} /\ batch = num_batches
                            THEN 1 ELSE 0)
    /\ [][/\ files' # files => pc = "save"
          /\ epoch' = epoch + 1 => EpochEndStep
          /\ EpochEndStep =>
                /\ epoch' = epoch + 1
                /\ \A metric_name \in Keys(metrics) :
                       SavedSeries(metric_name)' = Series(metrics, metric_name)
                /\ Len(SeriesOrEmpty(metrics, "validation_loss")) >= epoch + 1]_vars

\* the series whose file a write that raised has left corrupt
CorruptSeries == {metric_name \in Keys(metrics) : SavedSeries(metric_name) = Corrupt}

\* C5: train() saves the whole metric store exactly once at the end of every
\* epoch, after validation and checkpointing, and nothing else in train()
\* writes a metric file.  Only a run that aborted inside the write of a
\* series has a corrupt file, and it has one: that series is lost as a
\* whole.  Of every other series, whenever the run is in or aborted in epoch
\* e, the saved file holds every value logged in epochs 0..e-1: only values
\* of the current epoch can be missing.
C5_MetricsSavedPerEpoch ==
    /\ [](/\ CorruptSeries # {} => pc = "aborted"
          /\ Cardinality(CorruptSeries) <= 1
          /\ ((pc \in {"batch", "validate", "checkpoint", "save", "aborted"}) /\ epoch >= 1) =>
                \A metric_name \in Keys(metrics) \ CorruptSeries :
                    /\ IsPrefix(SavedSeries(metric_name), Series(metrics, metric_name))
                    /\ NotSaved(metric_name) <=
                           IF metric_name \in {"train_loss", "epoch"} THEN batch
                           ELSE IF pc \in {"checkpoint", "save", "aborted"}
                                   /\ batch = num_batches
                                THEN 1 ELSE 0)
    /\ [][/\ files' # files => pc = "save"
          /\ epoch' = epoch + 1 => EpochEndStep
          /\ EpochEndStep =>
                /\ epoch' = epoch + 1
                /\ \A metric_name \in Keys(metrics) :
                       SavedSeries(metric_name)' = Series(metrics, metric_name)
                /\ Len(SeriesOrEmpty(metrics, "validation_loss")) >= epoch + 1]_vars

\* the run is aborted at the end of its second epoch inside the write of
\* validation_loss: that file is corrupt, train_loss and epoch are saved
\* whole, and the files after it hold the first epoch
C5_Witness ==
    /\ pc = "aborted"
    /\ epoch = 1
    /\ SavedSeries("validation_loss") = Corrupt
    /\ Len(Series(metrics, "validation_loss")) = 2
    /\ NotSaved("train_loss") = 0
    /\ Len(SavedSeries("validation_iou")) = 1
    /\ NotSaved("validation_iou") = 1

\* the epoch entries as plain numbers
EpochSeries ==
    LET series == SeriesOrEmpty(metrics, "epoch")
    IN  [i \in 1..Len(series) |-> series[i].v]
NonDecreasing(s) == \A i \in 1..Len(s) - 1 : s[i] <= s[i + 1]
\* batches the current call of train() has logged
CallBatches == epoch * num_batches + batch

\* C6 as stated: train_loss and epoch are appended in lock-step once per
\* batch: at every batch boundary both series have the same length, the
\* i-th epoch entry is the epoch of the batch that produced the i-th
\* train_loss entry, and the epoch series is non-decreasing.
C6_LockStepNonDecreasing ==
    /\ Len(SeriesOrEmpty(metrics, "train_loss")) = Len(SeriesOrEmpty(metrics, "epoch"))
    /\ NonDecreasing(EpochSeries)

\* C6 amended: the lock-step holds, and the epoch entries one call of train()
\* appends are non-decreasing (a later call on the same wrapper starts again
\* at epoch 0).
C6_LockStep ==
    /\ [](/\ Len(SeriesOrEmpty(metrics, "train_loss")) = Len(SeriesOrEmpty(metrics, "epoch"))
          /\ pc \in {"batch", "validate", "checkpoint", "save"} =>
                /\ CallBatches <= Len(EpochSeries)
                /\ NonDecreasing(SubSeq(EpochSeries, Len(EpochSeries) - CallBatches + 1,
                                        Len(EpochSeries))))
    /\ [][BatchStep =>
             LET losses == SeriesOrEmpty(metrics', "train_loss")
                 epochs == SeriesOrEmpty(metrics', "epoch")
             IN  /\ Len(losses) = Len(SeriesOrEmpty(metrics, "train_loss")) + 1
                 /\ Len(epochs) = Len(SeriesOrEmpty(metrics, "epoch")) + 1
                 /\ losses[Len(losses)] = progress_bar'.loss
                 /\ epochs[Len(epochs)] = Num(epoch)
                 /\ \A i \in 1..Len(losses) - 1 :
                        /\ losses[i] = Series(metrics, "train_loss")[i]
                        /\ epochs[i] = Series(metrics, "epoch")[i]]_vars

\* a call of two epochs has returned and a second call has logged a batch
C6_Witness ==
    /\ pc \in {"batch", "validate"}
    /\ CallBatches = 1
    /\ Len(SeriesOrEmpty(metrics, "train_loss")) = 3
    /\ EpochSeries = <<0, 1, 0>>

----------------------------------------------------------------------------
(* Claims about the bounding boxes and the ground-truth membership *)

\* the query points of each mask, and the boxes as the specification states them
GPoints == {m_args.coordinates[i] : i \in {j \in QueryIndices : G(j)}}
PPoints == {m_args.coordinates[i] : i \in {j \in QueryIndices : P(j)}}
Lo(S, a) == Min({p[a] : p \in S})
Hi(S, a) == Max({p[a] : p \in S})
LabelBoxMin == [a \in 1..3 |-> Lo(GPoints, a) - m_offset[a]]
LabelBoxMax == [a \in 1..3 |-> Hi(GPoints, a) + m_offset[a]]
PredBoxMin  == [a \in 1..3 |-> Lo(PPoints, a)]
PredBoxMax  == [a \in 1..3 |-> Hi(PPoints, a)]
AxisOverlap(a) ==
    LET upper == IF PredBoxMax[a] < LabelBoxMax[a] THEN PredBoxMax[a] ELSE LabelBoxMax[a]
        lower == IF PredBoxMin[a] > LabelBoxMin[a] THEN PredBoxMin[a] ELSE LabelBoxMin[a]
    IN  IF upper - lower < 0 THEN 0 ELSE upper - lower
BoxIntersection == AxisOverlap(1) * AxisOverlap(2) * AxisOverlap(3)
BoxVolume(lo, hi) == (hi[1] - lo[1]) * (hi[2] - lo[2]) * (hi[3] - lo[3])
CalledBoundingBox == m_called = "intersection_over_union_bounding_box"

\* C11: with a non-empty ground-truth subset and a non-empty predicted-positive
\* subset, intersection_over_union_bounding_box returns
\* intersection / (volume_pred + volume_label - intersection + 1e-9), the label
\* box being the box of the ground-truth subset widened by the offset on both
\* sides, the predicted box the box of the predicted-positive subset, and the
\* intersection the product of the per-axis overlaps clipped at zero; label box
\* (0,0,0)-(2,2,2) and predicted box (1,1,1)-(3,3,3) without offset give 1/15.
C11_BoundingBoxIoU ==
    (CalledBoundingBox /\ GPoints # {} /\ PPoints # {}) =>
        /\ ~m_ret.raised
        /\ m_ret.iou = Ratio(BoxIntersection,
                             BoxVolume(PredBoxMin, PredBoxMax)
                             + BoxVolume(LabelBoxMin, LabelBoxMax) - BoxIntersection)
        /\ (/\ m_offset = Zeros
            /\ LabelBoxMin = <<0, 0, 0>> /\ LabelBoxMax = <<2, 2, 2>>
            /\ PredBoxMin = <<1, 1, 1>> /\ PredBoxMax = <<3, 3, 3>>)
           => m_ret.iou = Ratio(1, 15)
C11_Witness ==
    /\ CalledBoundingBox
    /\ GPoints # {} /\ PPoints # {}
    /\ m_offset = Zeros
    /\ LabelBoxMin = <<0, 0, 0>> /\ LabelBoxMax = <<2, 2, 2>>
    /\ PredBoxMin = <<1, 1, 1>> /\ PredBoxMax = <<3, 3, 3>>
    /\ m_ret.iou = Ratio(1, 15)

\* C13: each of the four metric functions, called on its own, in any order and
\* any number of times, with an empty label set and a non-empty query set,
\* returns a value and does not raise; a call leaves the inputs and the
\* wrapper alone.  (Stated for the calls in which the kd-tree over the empty
\* label set is built, so that a violation is the function's own doing.)
C13_EmptyLabelAccepted ==
    /\ (/\ m_called # "none"
        /\ m_args.label = {}
        /\ Len(m_args.coordinates) > 0
        /\ ~KDTreeFails(m_args.label)) => ~m_ret.raised
    /\ metrics = <<>> /\ files = NewFiles /\ models = <<>>

----------------------------------------------------------------------------
(* Claims about the metric store's averages *)

\* the sum of the entries of a series at the positions of a set
RECURSIVE SumAt(_, _)
SumAt(values, S) ==
    IF S = {} THEN 0
    ELSE LET i == CHOOSE j \in S : TRUE IN values[i].v + SumAt(values, S \ {i})

\* the value a call returned is the number k
IsMean(r, k) == r.raised = "no" /\ r.value = Num(k)
\* the float x is the quotient sum / n
IsQuotient(x, sum, n) == IsNumber(x) /\ x.v * n = sum * Den(x)

\* the positions of the series 'epoch' that hold e
Aligned(e) == {i \in 1..Len(Series(metrics, "epoch")) : Series(metrics, "epoch")[i] = Num(e)}
LossesExample == [name |-> "train_loss", values |-> <<Num(1), Num(3), Num(5)>>]
EpochsExample == [name |-> "epoch", values |-> <<Num(0), Num(0), Num(1)>>]

\* C14: get_average_metric_for_epoch(name, e) returns the mean of exactly those
\* values of the series name whose entry at the same position of the series
\* 'epoch' equals e (train_loss [1.0, 3.0, 5.0] with epoch [0, 0, 1] gives 2.0
\* for epoch 0 and 5.0 for epoch 1), and leaves the store unchanged.
C14_AverageForEpoch ==
    [][w_called'.op = "get_average_metric_for_epoch" =>
        /\ metrics' = metrics
        /\ (/\ w_called'.metric_name \in Keys(metrics)
            /\ "epoch" \in Keys(metrics)
            /\ Len(Series(metrics, w_called'.metric_name)) = Len(Series(metrics, "epoch"))
            /\ Aligned(w_called'.epoch) # {})
           => LET aligned == Aligned(w_called'.epoch)
              IN  /\ w_ret'.raised = "no"
                  /\ IsQuotient(w_ret'.value,
                                SumAt(Series(metrics, w_called'.metric_name), aligned),
                                Cardinality(aligned))
        /\ (metrics = <<LossesExample, EpochsExample>> /\ w_called'.metric_name = "train_loss")
           => /\ w_called'.epoch = 0 => IsMean(w_ret', 2)
              /\ w_called'.epoch = 1 => IsMean(w_ret', 5)]_vars
C14_Witness ==
    /\ w_called = Call("get_average_metric_for_epoch", "train_loss", 0, FALSE)
    /\ metrics = <<LossesExample, EpochsExample>>
    /\ w_ret = Returned(Num(2))

\* C15: get_average_metric_for_epoch never returns a number when the series
\* name and the series 'epoch' have different lengths (name longer or
\* shorter): the call signals an error.
C15_MisalignedSignals ==
    (/\ w_called.op = "get_average_metric_for_epoch"
     /\ w_called.metric_name \in Keys(metrics)
     /\ "epoch" \in Keys(metrics)
     /\ Len(Series(metrics, w_called.metric_name)) # Len(Series(metrics, "epoch")))
    => w_ret.raised # "no"

\* C16: get_average_metric(name) for a name that was never logged signals a
\* lookup error and leaves the store unchanged (it creates no series); for a
\* logged name it returns the mean of the whole series.
C16_AverageOfSeries ==
    [][w_called'.op = "get_average_metric" =>
        /\ metrics' = metrics
        /\ w_called'.metric_name \notin Keys(metrics) => w_ret' = Raises("KeyError")
        /\ w_called'.metric_name \in Keys(metrics) =>
              LET values == Series(metrics, w_called'.metric_name)
              IN  /\ w_ret'.raised = "no"
                  /\ IsQuotient(w_ret'.value, SumAt(values, 1..Len(values)),
                                Len(values))]_vars
C16_Witness ==
    /\ w_called = Call("get_average_metric", "validation_loss", 0, FALSE)
    /\ metrics = <<LossesExample>>
    /\ w_ret = Raises("KeyError")

----------------------------------------------------------------------------
(* Claims about logging and save_metrics *)

\* C17: logging(name, v) with v not None grows exactly the series name by one
\* entry, at its end and equal to v (the series is created with that single
\* entry if there was none), and leaves every other series, every earlier
\* entry and the saved files unchanged.
C17_LoggingFrame ==
    [][\A metric_name \in MetricNames, value \in LoggedValues \ {None} :
          CallLogging(metric_name, value) =>
              /\ SeriesOrEmpty(metrics', metric_name)
                     = Append(SeriesOrEmpty(metrics, metric_name), value)
              /\ Keys(metrics') = Keys(metrics) \cup {metric_name}
              /\ \A other \in Keys(metrics) \ {metric_name} :
                     Series(metrics', other) = Series(metrics, other)
              /\ files' = files /\ models' = models]_vars
C17_Witness ==
    metrics = <<[name |-> "epoch", values |-> <<Num(1)>>],
                [name |-> "train_loss", values |-> <<Num(2), Num(1), Num(2)>>]>>

\* no series of the store holds a None (C1)
NoNone(m) == \A i \in 1..Len(m) : ~TensorFails(m[i].values)

\* C18: save_metrics writes one artifact per named series in both naming
\* modes: without the opt-in each is named after its metric and overwrites the
\* earlier one; with add_time_to_file_name=True the call completes too and
\* writes names qualified by the time.
C18_SaveBothModes ==
    [][\A add_time_to_file_name \in BOOLEAN :
          (CallSaveMetrics(add_time_to_file_name) /\ NoNone(metrics)) =>
              /\ w_ret'.raised = "no"
              /\ Cardinality(DOMAIN files') >= Len(metrics)
              /\ ~add_time_to_file_name =>
                     /\ DOMAIN files'
                            = DOMAIN files \cup {MetricFile(name) : name \in Keys(metrics)}
                     /\ \A name \in Keys(metrics) :
                            files'[MetricFile(name)] = Series(metrics, name)]_vars

----------------------------------------------------------------------------
(* Claims about validate() and test() *)

\* every series of the store is on durable storage as it is in the store
StoreSaved ==
    \A i \in 1..Len(metrics) :
        /\ MetricFile(metrics[i].name) \in DOMAIN files
        /\ files[MetricFile(metrics[i].name)] = metrics[i].values
ValidateReturns == \E outcome \in ValOutcomes : CallValidate(outcome)
TestReturns == pc = "test_averages" /\ pc' = "test_returned"

\* C19 as stated: every completed call of validate() and every completed call
\* of test() has written the store to durable storage before it returns.
C19_BothModesPersist ==
    [][(ValidateReturns \/ TestReturns) => StoreSaved']_vars

\* C19, amended: every completed call of test() has written the store to
\* durable storage before it returns; validate() writes nothing and leaves
\* the store as it is.
C19_TestPersists ==
    [][/\ TestReturns => StoreSaved'
       /\ ValidateReturns => (files' = files /\ metrics' = metrics)]_vars
C19_Witness ==
    /\ pc = "test_returned"
    /\ "train_loss" \in Keys(metrics)
    /\ Len(SeriesOrEmpty(metrics, "iou")) = 2
    /\ StoreSaved

----------------------------------------------------------------------------
(* Claims about failures in train() *)

BatchFails == pc = "batch" /\ pc' = "aborted"

\* C20: a failure in a step of a training batch propagates out of train() and
\* aborts the run: the batch is not retried and no later batch or epoch is
\* processed (the aborted call takes no further step; the failed batch has
\* stepped the optimizer once at most), nothing is logged for the failed
\* batch, and the series train_loss and epoch keep equal length.
C20_BatchFailureAborts ==
    /\ [](pc = "aborted" =>
             Len(SeriesOrEmpty(metrics, "train_loss")) = Len(SeriesOrEmpty(metrics, "epoch")))
    /\ [][/\ BatchFails =>
                 /\ metrics' = metrics
                 /\ network' \in {network, network + 1}
                 /\ files' = files /\ models' = models
                 /\ epoch' = epoch /\ batch' = batch
          /\ pc = "aborted" =>
                 /\ metrics' = metrics
                 /\ network' = network
                 /\ pc' = "aborted"]_vars
C20_Witness ==
    /\ pc = "aborted"
    /\ num_batches = 2
    /\ batch = 1
    /\ Len(SeriesOrEmpty(metrics, "train_loss")) = 1
    /\ SeriesOrEmpty(metrics, "epoch") = <<Num(0)>>
    /\ "validation_loss" \notin Keys(metrics)
    /\ Len(ops) > 0 /\ ops[Len(ops)] = "loss_function"

----------------------------------------------------------------------------
(* Claims about the wrapper's lifetime *)

\* the store n holds everything the store m holds, at the same places
Grows(m, n) ==
    /\ Len(m) <= Len(n)
    /\ \A i \in 1..Len(m) :
           /\ n[i].name = m[i].name
           /\ IsPrefix(m[i].values, n[i].values)

\* C21: the metric store is empty when the wrapper is constructed and
\* afterwards only grows: over any sequence of train(), validate(), test(),
\* logging(), get_average_metric*() and save_metrics() calls no series is
\* removed, shortened or reset and no existing entry is changed.
C21_StoreOnlyGrows ==
    /\ metrics = <<>>
    /\ [][Grows(metrics, metrics')]_vars
C21_Witness ==
    /\ pc = "test_returned"
    /\ Len(SeriesOrEmpty(metrics, "train_loss")) = 1
    /\ "validation_loss" \in Keys(metrics)
    /\ w_ret.raised = "no"
    /\ StoreSaved

----------------------------------------------------------------------------
(* Claims about parse_to_list *)

CalledParse == m_called = "parse_to_list"
WrongLength ==
    /\ isinstance_list(m_args.possible_list)
    /\ Len(m_args.possible_list.items) # m_args.length

\* C22: parse_to_list fails with an error when given a list whose length
\* differs from the expected block count, never truncating or padding it; a
\* list of the right length is returned unchanged, and a non-list value v is
\* expanded to a list of exactly length copies of v.
C22_ParseToList ==
    CalledParse =>
        LET v == m_args.possible_list
            length == m_args.length
        IN  IF isinstance_list(v)
            THEN IF Len(v.items) = length
                 THEN m_ret.raised = "no" /\ m_ret.value = v
                 ELSE m_ret.raised = "AssertionError" /\ m_ret.value = None
            ELSE /\ m_ret.raised = "no"
                 /\ isinstance_list(m_ret.value)
                 /\ Len(m_ret.value.items) = length
                 /\ \A i \in 1..length : m_ret.value.items[i] = v
C22_Witness ==
    /\ CalledParse
    /\ WrongLength
    /\ Len(m_args.possible_list.items) = 2
    /\ m_args.length = 3
    /\ m_ret.raised = "AssertionError"

----------------------------------------------------------------------------
(* Claims about the drawing of test batches *)

TestCalled == w_called.op = "test"
ObjFiles(indices) ==
    {PredObjFile(i) : i \in indices} \cup {LabelObjFile(i) : i \in indices}
DrawnFiles ==
    DOMAIN files \ ({MetricFile(metric_name) : metric_name \in TestNameSet}
                      \cup {HyperparameterFile})
Multiples(n) == {i \in 0..n : i % DrawInterval = 0}

\* C23: with draw enabled, test() writes the visualization files, one
\* prediction file and one label file, for exactly the batches whose
\* zero-based index is a multiple of 25 and for no other batch: the files
\* written are those of the multiples of 25 among the batches of the pass, the
\* batch at which the pass stopped included or not.
C23_DrawnInPairs ==
    (TestCalled /\ w_called.draw) =>
        \E n \in {batch - 1, batch} : DrawnFiles = ObjFiles(Multiples(n))

\* in the passes whose batches are given by their measured values, and in
\* which draw_test raises only where it is made to: the files are those of the
\* multiples of 25, of the batch at which test() raised in part or not at
\* all, and, drawn or not, the values logged for batch i are the values
\* measured for batch i
DrawsEvery25th ==
    TestCalled =>
        /\ IF w_called.draw
           THEN /\ ObjFiles(Multiples(batch - 1)) \subseteq DrawnFiles
                /\ DrawnFiles \subseteq ObjFiles(Multiples(batch))
                /\ pc # "aborted" => DrawnFiles = ObjFiles(Multiples(batch - 1))
           ELSE DrawnFiles = {}
        /\ \A metric_name \in TestNameSet :
               \A i \in 1..batch :
                   /\ i <= Len(SeriesOrEmpty(metrics, metric_name))
                   /\ SeriesOrEmpty(metrics, metric_name)[i] = DrawMeasure(i - 1)[metric_name]
DrawsEvery25thWitness ==
    /\ TestCalled
    /\ w_called.draw
    /\ pc = "test_returned"
    /\ batch = DrawInterval + 1
    /\ DrawnFiles = ObjFiles({0, DrawInterval})

----------------------------------------------------------------------------
(* Claims about the order of train() *)

Positions(op) == {i \in 1..Len(ops) : ops[i] = op}
Count(op) == Cardinality(Positions(op))
Writes == Positions("save_best") \cup Positions("save_epoch")

\* every forward pass follows a zero_grad and is followed by the loss, the
\* backward pass, one optimizer step and the logging, in this order; only the
\* batch at which the run aborted stops on the way
BatchOrder ==
    LET forward == Positions("forward")
    IN  /\ \A i \in forward :
               /\ i > 1 /\ ops[i - 1] = "zero_grad"
               /\ pc # "aborted" => i + 5 <= Len(ops)
               /\ \A j \in 1..3 :
                      i + j <= Len(ops) =>
                          ops[i + j] = <<"loss_function", "backward", "step">>[j]
               /\ i + 5 <= Len(ops) => ops[i + 5] = "logging"
               /\ \A j \in i + 1..i + 5 : j <= Len(ops) => ops[j] # "forward"
        /\ pc # "aborted" => Count("zero_grad") = Cardinality(forward)
        /\ pc # "aborted" => Count("step") = Cardinality(forward)
        /\ Count("step") <= Cardinality(forward)
        /\ Cardinality(forward) <= Count("zero_grad")
        /\ Running => Cardinality(forward) = batch

\* the batches of the epoch come before its validation, the validation before
\* its checkpoint writes
EpochOrder ==
    /\ Count("validate") <= 1
    /\ \A v \in Positions("validate") :
           /\ Count("forward") = num_batches
           /\ \A i \in Positions("forward") \cup Positions("step") : i < v
           /\ \A w \in Writes : v < w
    /\ Writes # {} => Count("validate") = 1

\* the positions of train(): batches, validation, checkpoints, the end of the
\* epoch, and from there the first batch of the next epoch
PositionOrder ==
    (Running' /\ pc' # pc) =>
        \/ ~Running /\ pc' = "batch" /\ ops' = <<>>
        \/ <<pc, pc'>> \in {<<"batch", "validate">>, <<"validate", "checkpoint">>,
                           <<"checkpoint", "save">>, <<"save", "batch">>}

\* C24: each run of train() follows the order Forward -> Loss -> Backward ->
\* Step -> Log within every batch; within every epoch all batches complete
\* before Validate, Validate completes before any checkpoint write, and the
\* checkpoint step completes before the first batch of the next epoch;
\* gradients are zeroed before each forward pass and the optimizer steps
\* exactly once per batch.
C24_TrainOrder ==
    /\ [](BatchOrder /\ EpochOrder)
    /\ [][PositionOrder]_vars
    /\ [][BatchStep => (ops = <<>> <=> batch = 0)]_vars
C24_Witness ==
    /\ pc = "save"
    /\ epoch = 1
    /\ ops = BatchOps \o ValidateOps \o <<"save_best", "save_epoch">>

----------------------------------------------------------------------------
(* Claims about the progress report and the validation series *)

\* the last n entries of a series of the store
LastOf(metric_name, n) ==
    LET series == SeriesOrEmpty(metrics, metric_name)
    IN  SubSeq(series, Len(series) - n + 1, Len(series))
\* the validation results of the epochs this call of train() has completed
CompletedLosses == LastOf("validation_loss", epoch)
LastCompleted ==
    IF epoch = 0 THEN NoValidation
    ELSE [loss   |-> LastOf("validation_loss", 1)[1],
          iou    |-> LastOf("validation_iou", 1)[1],
          bb_iou |-> LastOf("validation_bb_iou", 1)[1]]

\* C25: after every training batch the progress report shows the best
\* validation loss so far, the minimum validation loss over all completed
\* epochs (+infinity before the first validation completes), for every
\* configuration of train() including save_best_model=False, together with
\* the loss, iou and bounding box iou of the last completed validation
\* (+infinity, 0, 0 until the first validation completes).
C25_ProgressShowsBest ==
    [][BatchStep =>
          /\ progress_bar'.best_loss = Lowest(CompletedLosses)
          /\ progress_bar'.validation = LastCompleted]_vars

ValidationNames == {"validation_loss", "validation_iou", "validation_bb_iou"}
ValidationResult(outcome, metric_name) ==
    IF metric_name = "validation_loss" THEN outcome.loss
    ELSE IF metric_name = "validation_iou" THEN outcome.iou
    ELSE outcome.bb_iou
ValidateStep == pc = "validate" /\ pc' = "checkpoint"
\* the store holds only what the current call of train() has logged
FirstCall == Len(SeriesOrEmpty(metrics, "train_loss")) = CallBatches
\* epochs of the current call whose validation has been logged
Validated == IF pc \in {"checkpoint", "save"} THEN epoch + 1 ELSE epoch

\* C26 as stated: after each epoch of train() the validation result (loss,
\* iou, bounding box iou) is appended to validation_loss, validation_iou and
\* validation_bb_iou in lock-step: after k completed epochs each of the three
\* series has exactly k entries, the e-th of them the result of the
\* validation that followed epoch e.
C26_ExactlyOnePerEpoch ==
    /\ [](LET entries == Len(SeriesOrEmpty(metrics, "validation_loss"))
          IN  /\ Len(SeriesOrEmpty(metrics, "validation_iou")) = entries
              /\ Len(SeriesOrEmpty(metrics, "validation_bb_iou")) = entries
              /\ (Running \/ pc = "returned") => entries = Validated)
    /\ [][(ValidateStep \/ metrics' # metrics) =>
             \A metric_name \in ValidationNames :
                 LET before == SeriesOrEmpty(metrics, metric_name)
                     after == SeriesOrEmpty(metrics', metric_name)
                 IN  IF ValidateStep
                     THEN after = Append(before, ValidationResult(validation', metric_name))
                     ELSE after = before]_vars

\* entries of validation_loss that earlier calls of train() have left
Earlier == Len(SeriesOrEmpty(metrics, "validation_loss")) - Validated

\* C26: after each epoch of train() the validation result (loss, iou,
\* bounding box iou) is appended to validation_loss, validation_iou and
\* validation_bb_iou in lock-step: the three series have equal length, the
\* validation after an epoch appends its result to each and nothing else
\* changes them, so a call of train() that has completed k epochs has
\* appended exactly k entries to each (the steps of a call leave the number
\* of earlier entries as it is), the e-th of them the result of the
\* validation that followed epoch e; in a call on a new wrapper these are
\* all the entries.
C26_ValidationLockStep ==
    /\ [](LET entries == Len(SeriesOrEmpty(metrics, "validation_loss"))
          IN  /\ Len(SeriesOrEmpty(metrics, "validation_iou")) = entries
              /\ Len(SeriesOrEmpty(metrics, "validation_bb_iou")) = entries
              /\ (Running \/ pc = "returned") => Earlier >= 0
              /\ ((Running \/ pc = "returned") /\ FirstCall) => entries = Validated)
    /\ [][/\ (ValidateStep \/ metrics' # metrics) =>
                \A metric_name \in ValidationNames :
                    LET before == SeriesOrEmpty(metrics, metric_name)
                        after == SeriesOrEmpty(metrics', metric_name)
                    IN  IF ValidateStep
                        THEN after = Append(before,
                                            ValidationResult(validation', metric_name))
                        ELSE after = before
          /\ (Running /\ pc' \in {"batch", "validate", "checkpoint", "save", "returned"}) =>
                Earlier' = Earlier]_vars
\* a second call of train() on a wrapper has returned after one epoch: its
\* validation is the second entry of each series
C26_Witness ==
    /\ pc = "returned"
    /\ epoch = 1
    /\ Earlier = 1
    /\ validation = [loss |-> Num(1), iou |-> Num(1), bb_iou |-> Num(1)]
    /\ Series(metrics, "validation_loss") = <<Num(2), Num(1)>>
    /\ Series(metrics, "validation_iou") = <<Num(1), Num(1)>>
    /\ Series(metrics, "validation_bb_iou") = <<Num(0), Num(1)>>

----------------------------------------------------------------------------
(* Claims about the series of test() and the sentinels of the bounding box *)

\* C27: test() logs every per-batch series in lock-step: for each batch it
\* appends one value to each of the fourteen series, so at every batch
\* boundary all fourteen have equal length, including for batches where the
\* bounding-box metric has a sentinel to return.
C27_TestLockStep ==
    (TestRunning \/ pc = "test_returned") =>
        \A metric_name \in TestNameSet :
            Len(SeriesOrEmpty(metrics, metric_name)) = Len(SeriesOrEmpty(metrics, "iou"))

\* the bounding box returned a flag (1: no label region, 0: no prediction)
IsSentinel(r) == ~r.raised /\ r.iou \in {Exact(0), Exact(1)}
Computed(batches) ==
    Masked([i \in 1..Len(batches) |-> Measure(batches[i])["iou_bounding_box"]],
           [i \in 1..Len(batches) |-> ~IsSentinel(BoundingBox(batches[i]))])

\* C28: validate() and test() branch on the flag: a sentinel result is not
\* entered into the bounding-box IoU series or mean as if it were an IoU.
C28_SentinelsKeptOut ==
    [][/\ \A data \in MeasureBatches :
              (TestBatchMeasured(data) /\ IsSentinel(BoundingBox(data))) =>
                  SeriesOrEmpty(metrics', "iou_bounding_box")
                      = SeriesOrEmpty(metrics, "iou_bounding_box")
       /\ \A batches \in ValidationSets :
              (CallValidateMeasured(batches) /\ w_ret'.raised = "no") =>
                  w_ret'.value.bb_iou = np_mean(Computed(batches)).value]_vars

----------------------------------------------------------------------------
(* Claims about the mode of the network and the averages of test() *)

\* C29: during train() the network is in training mode at the forward pass
\* of every training batch, in every epoch: the switch to evaluation mode
\* made by the validation at the end of epoch e is undone before the first
\* batch of epoch e + 1.
C29_TrainingModeAtBatches ==
    [][BatchStep => training]_vars

\* two means are the same number
SameMean(a, b) == a = b
Headlines == {"iou", "iou_bounding_box", "precision", "recall", "test_loss"}

\* C30: the averages test() returns (iou, iou_bounding_box, precision, recall,
\* test_loss) are the means over the batches of that test pass, also when
\* test() has run earlier on the same wrapper.
C30_AveragesOfThePass ==
    (pc = "test_returned" /\ TestCalled) =>
        /\ SameMean(w_ret.value.iou, np_mean(LastOf("iou", num_test_batches)).value)
        /\ SameMean(w_ret.value.iou_bounding_box,
                    np_mean(LastOf("iou_bounding_box", num_test_batches)).value)
        /\ SameMean(w_ret.value.precision,
                    np_mean(LastOf("precision", num_test_batches)).value)
        /\ SameMean(w_ret.value.recall, np_mean(LastOf("recall", num_test_batches)).value)
        /\ SameMean(w_ret.value.test_loss,
                    np_mean(LastOf("test_loss", num_test_batches)).value)

====
